---- MODULE Spec2Model ----
(***************************************************************************)
(* A model of the generic CRUD mixins of rest.fastapi-orm-template: the    *)
(* filter builder, the deferred-join select builder and the insert,        *)
(* upsert, update and delete operations, run against one SQLAlchemy        *)
(* session whose maker sets autocommit=False, autoflush=False and          *)
(* expire_on_commit=False.  The entity is TaskORM (id, name, point).       *)
(***************************************************************************)
EXTENDS Integers, Sequences, FiniteSets, TLC

VARIABLES
    session,    \* the caller's session: committed table, open transaction, unit of work
    last,       \* the last operation called on the session: its inputs, outcome, session calls
    steps,      \* number of operations called so far
    runs,       \* the same write run in statement mode and in instance mode
    pager,      \* pages fetched so far by successive select_by_where calls
    query       \* the last filter query: its conditions and the rows it returned

vars == <<session, last, steps, runs, pager, query>>

-----------------------------------------------------------------------------
(* Bounds of the model *)

MaxSteps == 2
MaxRows == 3
MaxConds == 2

-----------------------------------------------------------------------------
(* The entity: TaskORM with IdStrMixin and the NOT NULL columns name, point *)

\* A name is the sequence of its characters; NULL has a marker of each type.
NullName == <<"NULL">>
NullInt == -1
DefaultPoint == 70

NameA == <<"a">>
NameB == <<"b">>
NameAB == <<"a", "b">>

Ids == {"X", "Y"}
Columns == {"id", "name", "point"}

IsNull(f, v) ==
    CASE f = "point" -> v = NullInt
      [] f = "name" -> v = NullName
      [] OTHER -> FALSE

Has(kw, f) == f \in DOMAIN kw

\* `del kwargs["id"]`, and the dict comprehension `if key != "id"`
Without(kw, f) == [k \in DOMAIN kw \ {f} |-> kw[k]]

EmptyTable == [i \in {} |-> [name |-> NameA, point |-> 0]]

\* A table maps the ids of its rows to their columns other than id.
Put(t, i, r) == [j \in DOMAIN t \cup {i} |-> IF j = i THEN r ELSE t[j]]
Remove(t, D) == [j \in DOMAIN t \ D |-> t[j]]

\* One row with the given column values written over it; unknown keys ignored.
SetCols(r, kw) ==
    [name  |-> IF Has(kw, "name") THEN kw.name ELSE r.name,
     point |-> IF Has(kw, "point") THEN kw.point ELSE r.point]

HasNull(kw) == \E f \in DOMAIN kw \cap Columns : IsNull(f, kw[f])
HasUnknown(kw) == \E f \in DOMAIN kw : f \notin Columns

-----------------------------------------------------------------------------
(* Statements as the storage engine executes them inside the transaction.  *)
(* Each returns the error it raises ("none" if it succeeds), the table     *)
(* after it and the number of rows it affected.  A failing statement       *)
(* changes nothing.                                                        *)

StmtOk(t, n) == [err |-> "none", tx |-> t, rowcount |-> n]
StmtErr(t, e) == [err |-> e, tx |-> t, rowcount |-> 0]

\* insert(cls).values(**kwargs)
ExecInsert(t, kw) ==
    IF HasUnknown(kw) THEN StmtErr(t, "CompileError")
    ELSE IF ~Has(kw, "name") \/ HasNull(kw) THEN StmtErr(t, "NotNullViolation")
    ELSE IF kw.id \in DOMAIN t THEN StmtErr(t, "UniqueViolation(id)")
    ELSE StmtOk(Put(t, kw.id,
                    [name |-> kw.name,
                     point |-> IF Has(kw, "point") THEN kw.point ELSE DefaultPoint]), 1)

\* insert(cls).values(**kwargs).on_conflict_do_update(index_elements=["id"], set_=_update_set)
ExecUpsert(t, kw) ==
    IF HasUnknown(kw) THEN StmtErr(t, "CompileError")
    ELSE IF ~Has(kw, "name") \/ HasNull(kw) THEN StmtErr(t, "NotNullViolation")
    ELSE IF kw.id \in DOMAIN t
         THEN StmtOk(Put(t, kw.id, SetCols(t[kw.id], Without(kw, "id"))), 1)
    ELSE StmtOk(Put(t, kw.id,
                    [name |-> kw.name,
                     point |-> IF Has(kw, "point") THEN kw.point ELSE DefaultPoint]), 1)

\* update(cls).where(<rows in D>).values(**kwargs); a value for id re-keys the row
ExecUpdate(t, D, kw) ==
    LET hit == D \cap DOMAIN t
        key(i) == IF i \in hit /\ Has(kw, "id") THEN kw.id ELSE i
        keys == {key(i) : i \in DOMAIN t}
    IN  IF HasUnknown(kw) THEN StmtErr(t, "CompileError")
        ELSE IF hit = {} THEN StmtOk(t, 0)
        ELSE IF HasNull(kw) THEN StmtErr(t, "NotNullViolation")
        ELSE IF Cardinality(keys) < Cardinality(DOMAIN t) THEN StmtErr(t, "UniqueViolation(id)")
        ELSE StmtOk([k \in keys |->
                        LET i == CHOOSE j \in DOMAIN t : key(j) = k
                        IN  IF i \in hit THEN SetCols(t[i], kw) ELSE t[i]],
                    Cardinality(hit))

\* A delete that stops after the first row it removes
ExecDeleteFirst(t, D) ==
    IF D \cap DOMAIN t = {} THEN StmtOk(t, 0)
    ELSE StmtOk(Remove(t, {CHOOSE i \in D \cap DOMAIN t : TRUE}), 1)

\* delete(cls).where(<rows in D>)
ExecDelete(t, D) == StmtOk(Remove(t, D), Cardinality(D \cap DOMAIN t))

-----------------------------------------------------------------------------
(* The session.  db is the committed table, tx the table as the open       *)
(* transaction sees it.  The unit of work holds what the ORM has not yet   *)
(* flushed: new (objects passed to add), dirty (attributes set on loaded   *)
(* objects) and deleted (objects passed to delete).  autoflush=False: only *)
(* commit flushes.  A failed flush rolls the transaction back and leaves   *)
(* the session inactive until rollback is called.                          *)

NoDirty == [i \in {} |-> [k \in {} |-> 0]]

NewSession(t) ==
    [db |-> t, tx |-> t, new |-> <<>>, dirty |-> NoDirty, deleted |-> {}, inactive |-> FALSE]

\* K applied to the value of v, computed once
Then(v, K(_)) == CHOOSE y \in {K(x) : x \in {v}} : TRUE

\* The INSERTs of a flush, in the order the objects were added
RECURSIVE FlushNew(_, _)
FlushNew(t, new) ==
    IF new = <<>> THEN StmtOk(t, 0)
    ELSE Then(ExecInsert(t, Head(new)),
              LAMBDA r : IF r.err # "none" THEN r ELSE FlushNew(r.tx, Tail(new)))

\* The UPDATEs of a flush: one per dirty object, on the columns that were set
FlushDirty(t, dirty) ==
    LET live == DOMAIN dirty \cap DOMAIN t
        key(i) == IF i \in live /\ Has(dirty[i], "id") THEN dirty[i].id ELSE i
        keys == {key(i) : i \in DOMAIN t}
    IN  IF DOMAIN dirty \ DOMAIN t # {} THEN StmtErr(t, "StaleDataError")
        ELSE IF \E i \in live : HasNull(dirty[i]) THEN StmtErr(t, "NotNullViolation")
        ELSE IF Cardinality(keys) < Cardinality(DOMAIN t) THEN StmtErr(t, "UniqueViolation(id)")
        ELSE StmtOk([k \in keys |->
                        LET i == CHOOSE j \in DOMAIN t : key(j) = k
                        IN  IF i \in live THEN SetCols(t[i], dirty[i]) ELSE t[i]],
                    Cardinality(live))

FlushFailed(s, err) ==
    [err |-> err,
     s |-> [s EXCEPT !.tx = s.db, !.new = <<>>, !.dirty = NoDirty, !.deleted = {},
                     !.inactive = TRUE]]

\* session.flush(): inserts, then updates, then deletes
Flush(s) ==
    Then(FlushNew(s.tx, s.new), LAMBDA a :
        IF a.err # "none" THEN FlushFailed(s, a.err)
        ELSE Then(FlushDirty(a.tx, s.dirty), LAMBDA b :
            IF b.err # "none" THEN FlushFailed(s, b.err)
            ELSE [err |-> "none",
                  s |-> [s EXCEPT !.tx = Remove(b.tx, s.deleted), !.new = <<>>,
                                  !.dirty = NoDirty, !.deleted = {}]]))

\* session.commit()
SessionCommit(s) ==
    IF s.inactive THEN [err |-> "PendingRollbackError", s |-> s]
    ELSE Then(Flush(s), LAMBDA f :
             IF f.err # "none" THEN f
             ELSE [err |-> "none", s |-> [f.s EXCEPT !.db = f.s.tx]])

\* session.rollback()
SessionRollback(s) ==
    [s EXCEPT !.tx = s.db, !.new = <<>>, !.dirty = NoDirty, !.deleted = {},
              !.inactive = FALSE]

\* session.execute(stmt); r is what the storage engine answers
SessionExecute(s, r) ==
    IF s.inactive THEN [err |-> "PendingRollbackError", s |-> s, rowcount |-> 0]
    ELSE Then(r, LAMBDA x : [err |-> x.err, s |-> [s EXCEPT !.tx = x.tx],
                             rowcount |-> x.rowcount])

\* session.get(cls, id): a row of the transaction; a pending object is not seen
SessionGet(s, i) == IF s.inactive THEN FALSE ELSE i \in DOMAIN s.tx

\* setattr(obj, key, val) on the loaded object of row i, for each column in kw
SetAttrs(s, i, kw) ==
    LET cols == [k \in DOMAIN kw \cap Columns |-> kw[k]]
        old == IF i \in DOMAIN s.dirty THEN s.dirty[i] ELSE [k \in {} |-> 0]
        now == [k \in DOMAIN old \cup DOMAIN cols |->
                   IF k \in DOMAIN cols THEN cols[k] ELSE old[k]]
    IN  IF DOMAIN now = {} THEN s
        ELSE [s EXCEPT !.dirty = [j \in DOMAIN s.dirty \cup {i} |->
                                      IF j = i THEN now ELSE s.dirty[j]]]

\* for _orm_object in orm_objects: for _key, _val in kwargs.items(): setattr(...)
RECURSIVE SetAll(_, _, _)
SetAll(s, D, kw) ==
    IF D = {} THEN s
    ELSE LET i == CHOOSE j \in D : TRUE
         IN  Then(SetAttrs(s, i, kw), LAMBDA s1 : SetAll(s1, D \ {i}, kw))

-----------------------------------------------------------------------------
(* What an operation hands back: the session after it, its outcome ("ok"   *)
(* or the name of the error raised) and the session calls it made.         *)

Res(s, out, calls) == [s |-> s, out |-> out, calls |-> calls]

\* The result of a nested call, after the calls made before it
After(calls, r) == [r EXCEPT !.calls = calls \o @]

\* except IntegrityError of insert and save
TranslateInsert(err) ==
    CASE err = "NotNullViolation" -> "NullConstraintError"
      [] err = "UniqueViolation(id)" -> "PrimaryKeyError"
      [] OTHER -> err

\* except IntegrityError of upsert, update and delete
TranslateUpdate(err) ==
    CASE err = "NotNullViolation" -> "NullConstraintError"
      [] err = "UniqueViolation(id)" -> "UniqueKeyError"
      [] OTHER -> err

\* An except branch that rolls back whatever auto_commit says
OnErrorAlways(s, auto_commit, out, calls) ==
    Res(SessionRollback(s), out, Append(calls, "rollback"))

\* except Exception: if auto_commit: rollback(); raise
OnError(s, auto_commit, out, calls) ==
    IF auto_commit THEN Res(SessionRollback(s), out, Append(calls, "rollback"))
    ELSE Res(s, out, calls)

\* if auto_commit: commit(), inside the try block of a create operation
CommitCreate(s, auto_commit, calls) ==
    IF ~auto_commit THEN Res(s, "ok", calls)
    ELSE Then(SessionCommit(s), LAMBDA c :
             IF c.err = "none" THEN Res(c.s, "ok", Append(calls, "commit"))
             ELSE OnError(c.s, auto_commit, TranslateInsert(c.err), Append(calls, "commit")))

\* if auto_commit: commit(), inside the try block of an update operation
CommitUpdate(s, auto_commit, calls) ==
    IF ~auto_commit THEN Res(s, "ok", calls)
    ELSE Then(SessionCommit(s), LAMBDA c :
             IF c.err = "none" THEN Res(c.s, "ok", Append(calls, "commit"))
             ELSE OnError(c.s, auto_commit, TranslateUpdate(c.err), Append(calls, "commit")))

\* if "id" not in kwargs: kwargs["id"] = gen_unique_id()
WithId(kw, g) ==
    IF Has(kw, "id") THEN kw
    ELSE [k \in DOMAIN kw \cup {"id"} |-> IF k = "id" THEN g ELSE kw[k]]

\* BaseMixin.__init__: a keyword that is not an attribute is dropped with a warning
BaseMixin_init(kw, g) ==
    LET k1 == WithId(kw, g) IN [k \in DOMAIN k1 \cap Columns |-> k1[k]]

async_insert(s, g, orm_way, returning, auto_commit, kwargs) ==
    IF DOMAIN kwargs = {} THEN Res(s, "EmptyValueError", <<>>)
    ELSE IF orm_way
    THEN CommitCreate([s EXCEPT !.new = Append(s.new, BaseMixin_init(kwargs, g))],
                      auto_commit, <<"add">>)
    ELSE Then(SessionExecute(s, ExecInsert(s.tx, WithId(kwargs, g))), LAMBDA e :
             IF e.err # "none"
             THEN OnError(e.s, auto_commit, TranslateInsert(e.err), <<"execute">>)
             ELSE CommitCreate(e.s, auto_commit, <<"execute">>))

async_get(s, id, allow_no_result) ==
    IF s.inactive THEN "PendingRollbackError"
    ELSE IF SessionGet(s, id) THEN "found"
    ELSE IF allow_no_result THEN "none"
    ELSE "NoResultFound"

async_update(s, id, auto_commit, kwargs) ==
    CommitUpdate(SetAttrs(s, id, Without(kwargs, "id")), auto_commit, <<>>)

async_upsert(s, g, orm_way, returning, auto_commit, kwargs) ==
    IF DOMAIN kwargs = {} THEN Res(s, "EmptyValueError", <<>>)
    ELSE IF orm_way
    THEN IF ~Has(kwargs, "id") THEN async_insert(s, g, TRUE, TRUE, auto_commit, kwargs)
         ELSE LET got == async_get(s, kwargs.id, TRUE) IN
              IF got = "PendingRollbackError" THEN Res(s, got, <<"get">>)
              ELSE IF got = "found"
              THEN After(<<"get">>, async_update(s, kwargs.id, auto_commit, kwargs))
              ELSE After(<<"get">>, async_insert(s, g, TRUE, TRUE, auto_commit, kwargs))
    ELSE Then(SessionExecute(s, ExecUpsert(s.tx, WithId(kwargs, g))), LAMBDA e :
             IF e.err # "none"
             THEN OnError(e.s, auto_commit, TranslateUpdate(e.err), <<"execute">>)
             ELSE CommitUpdate(e.s, auto_commit, <<"execute">>))

-----------------------------------------------------------------------------
(* The filter builder.  A condition is a dict with the keys column, value  *)
(* and, optionally, op.  The builder returns the predicates it appended to *)
(* the statement, in order, or the error it raised.                        *)

\* The if/elif chain of BaseMixin._build_where (core/models/mixins/_base.py):
\* the predicate appended for one condition, "skip" when no branch matches.
OpKind(c) ==
    IF ~Has(c, "op") THEN "eq"
    ELSE CASE c.op \in {"eq", "equal", "=", "=="} -> "eq"
           [] c.op \in {"ne", "not_equal", "!="} -> "ne"
           [] c.op = "like" -> "like"
           [] c.op \in {"gt", ">"} -> "gt"
           [] c.op \in {"ge", ">="} -> "ge"
           [] c.op \in {"lt", "<"} -> "lt"
           [] c.op \in {"le", "<="} -> "le"
           [] c.op = "between" -> "between"
           [] OTHER -> "skip"

\* The if/elif chain of the older BaseMixin._build_where (databases/rdb/mixins/base.py):
\* it has no branch for ne.
OpKindRdb(c) ==
    IF ~Has(c, "op") THEN "eq"
    ELSE CASE c.op \in {"eq", "equal", "=", "=="} -> "eq"
           [] c.op = "like" -> "like"
           [] c.op \in {"gt", ">"} -> "gt"
           [] c.op \in {"ge", ">="} -> "ge"
           [] c.op \in {"lt", "<"} -> "lt"
           [] c.op \in {"le", "<="} -> "le"
           [] c.op = "between" -> "between"
           [] OTHER -> "skip"

RECURSIVE Preds(_, _)
Preds(where, old) ==
    IF where = <<>> THEN <<>>
    ELSE LET c == Head(where)
             k == IF old THEN OpKindRdb(c) ELSE OpKind(c)
         IN  (IF k = "skip" THEN <<>>
              ELSE <<[column |-> c.column, kind |-> k, value |-> c.value]>>)
             \o Preds(Tail(where), old)

BuildError(where) ==
    IF \E n \in 1..Len(where) : ~Has(where[n], "column") \/ ~Has(where[n], "value")
    THEN "ValueError"
    ELSE IF \E n \in 1..Len(where) : where[n].column \notin Columns
    THEN "AttributeError"
    ELSE "none"

\* BaseMixin._build_where of core/models/mixins/_base.py
_build_where(where) ==
    LET e == BuildError(where)
    IN  [err |-> e, preds |-> IF e = "none" THEN Preds(where, FALSE) ELSE <<>>]

\* BaseMixin._build_where of databases/rdb/mixins/base.py
BaseMixin_build_where(where) ==
    LET e == BuildError(where)
    IN  [err |-> e, preds |-> IF e = "none" THEN Preds(where, TRUE) ELSE <<>>]

ColValue(t, i, col) ==
    CASE col = "id" -> i
      [] col = "name" -> t[i].name
      [] col = "point" -> t[i].point

\* column LIKE '%value%'
Contains(v, pat) ==
    \E k \in 0..(Len(v) - Len(pat)) : \A n \in 1..Len(pat) : v[k + n] = pat[n]

\* One predicate as the storage engine evaluates it on a row.
Holds(t, i, p) ==
    LET v == ColValue(t, i, p.column) IN
    CASE p.kind = "eq" -> v = p.value
      [] p.kind = "ne" -> v # p.value
      [] p.kind = "like" -> Contains(v, p.value)
      [] p.kind = "gt" -> v > p.value
      [] p.kind = "ge" -> v >= p.value
      [] p.kind = "lt" -> v < p.value
      [] p.kind = "le" -> v <= p.value
      [] p.kind = "between" -> p.value[1] <= v /\ v <= p.value[2]

\* The ids of the rows a statement with these predicates selects.
RowsWhere(t, preds) ==
    {i \in DOMAIN t : \A n \in 1..Len(preds) : Holds(t, i, preds[n])}

-----------------------------------------------------------------------------
(* Update operations (core/models/mixins/async_/update.py) *)

\* The try block shared by the statement-mode writes: execute, then the
\* not-found check of a returning statement, then the commit, then the
\* not-found check on rowcount; the except branch rolls back when auto_commit.
RunStatement(s, r, auto_commit, early, late) ==
    Then(SessionExecute(s, r), LAMBDA e :
        IF e.err # "none"
        THEN OnError(e.s, auto_commit, TranslateUpdate(e.err), <<"execute">>)
        ELSE IF early /\ e.rowcount = 0
        THEN OnError(e.s, auto_commit, "NoResultFound", <<"execute">>)
        ELSE Then(CommitUpdate(e.s, auto_commit, <<"execute">>), LAMBDA c :
                 IF c.out = "ok" /\ late /\ e.rowcount = 0
                 THEN OnError(c.s, auto_commit, "NoResultFound", c.calls)
                 ELSE c))

async_update_by_id(s, id, orm_way, returning, auto_commit, kwargs) ==
    IF DOMAIN kwargs = {} THEN Res(s, "EmptyValueError", <<>>)
    ELSE IF orm_way
    THEN LET got == async_get(s, id, FALSE) IN
         IF got # "found" THEN Res(s, got, <<"get">>)
         ELSE After(<<"get">>, async_update(s, id, auto_commit, Without(kwargs, "id")))
    ELSE RunStatement(s, ExecUpdate(s.tx, {id}, Without(kwargs, "id")), auto_commit,
                      returning, ~returning)

async_update_by_ids(s, ids, returning, auto_commit, kwargs) ==
    IF ids = {} THEN Res(s, "EmptyValueError", <<>>)
    ELSE IF DOMAIN kwargs = {} THEN Res(s, "EmptyValueError", <<>>)
    ELSE RunStatement(s, ExecUpdate(s.tx, ids, Without(kwargs, "id")), auto_commit,
                      returning, ~returning)

\* args are the keyword arguments of the call; the parameter is orm_objects
async_update_objects(s, args, auto_commit, kwargs) ==
    IF ~Has(args, "orm_objects") THEN Res(s, "ValidationError", <<>>)
    ELSE IF args.orm_objects = {} THEN Res(s, "EmptyValueError", <<>>)
    ELSE IF DOMAIN kwargs = {} THEN Res(s, "EmptyValueError", <<>>)
    ELSE CommitUpdate(SetAll(s, args.orm_objects, Without(kwargs, "id")), auto_commit, <<>>)

\* select_by_where(where, disable_limit=True): the ids of the rows it returns
async_select_by_where(s, where) ==
    Then(_build_where(where), LAMBDA b :
        IF b.err # "none" THEN [err |-> b.err, ids |-> {}]
        ELSE IF s.inactive THEN [err |-> "PendingRollbackError", ids |-> {}]
        ELSE [err |-> "none", ids |-> RowsWhere(s.tx, b.preds)])

async_update_by_where(s, where, orm_way, returning, auto_commit, allow_no_result, kwargs) ==
    IF DOMAIN kwargs = {} THEN Res(s, "EmptyValueError", <<>>)
    ELSE IF orm_way
    THEN Then(async_select_by_where(s, where), LAMBDA sel :
             IF sel.err # "none" THEN Res(s, sel.err, <<"select">>)
             ELSE IF sel.ids # {}
             THEN After(<<"select">>,
                        async_update_objects(s, [objects |-> sel.ids], auto_commit,
                                             Without(kwargs, "id")))
             ELSE IF ~allow_no_result THEN Res(s, "NoResultFound", <<"select">>)
             ELSE Res(s, "ok", <<"select">>))
    ELSE Then(_build_where(where), LAMBDA b :
             IF b.err # "none" THEN OnError(s, auto_commit, b.err, <<>>)
             ELSE Then(RowsWhere(s.tx, b.preds), LAMBDA D :
                  Then(RunStatement(s, ExecUpdate(s.tx, D, Without(kwargs, "id")),
                                    auto_commit, FALSE, FALSE), LAMBDA r :
                       IF r.out = "ok" /\ ~allow_no_result /\ D = {}
                       THEN Res(r.s, "NoResultFound", r.calls)
                       ELSE r)))

async_update_all(s, auto_commit, kwargs) ==
    IF DOMAIN kwargs = {} THEN Res(s, "EmptyValueError", <<>>)
    ELSE RunStatement(s, ExecUpdate(s.tx, DOMAIN s.tx, Without(kwargs, "id")), auto_commit,
                      FALSE, FALSE)

-----------------------------------------------------------------------------
(* Delete operations (core/models/mixins/async_/delete.py) *)

\* session.delete(obj) for each object, then the commit when auto_commit
DeleteMarked(s, D, auto_commit) ==
    CommitUpdate([s EXCEPT !.deleted = s.deleted \cup D], auto_commit, <<"delete">>)

async_delete(s, id, auto_commit) == DeleteMarked(s, {id}, auto_commit)

async_delete_by_id(s, id, orm_way, auto_commit) ==
    IF orm_way
    THEN LET got == async_get(s, id, FALSE) IN
         IF got # "found" THEN Res(s, got, <<"get">>)
         ELSE After(<<"get">>, async_delete(s, id, auto_commit))
    ELSE RunStatement(s, ExecDelete(s.tx, {id}), auto_commit, FALSE, TRUE)

async_delete_by_ids(s, ids, auto_commit) ==
    IF ids = {} THEN Res(s, "EmptyValueError", <<>>)
    ELSE RunStatement(s, ExecDelete(s.tx, ids), auto_commit, FALSE, TRUE)

async_delete_objects(s, orm_objects, auto_commit) ==
    IF orm_objects = {} THEN Res(s, "EmptyValueError", <<>>)
    ELSE DeleteMarked(s, orm_objects, auto_commit)

\* The filter builder the statement-mode delete_by_where calls; its body is
\* not among the sources, the product description gives it the behaviour of
\* the filter builder.
_build_where_stmt(where) == _build_where(where)

async_delete_by_where(s, where, orm_way, auto_commit, allow_no_result) ==
    IF orm_way
    THEN Then(async_select_by_where(s, where), LAMBDA sel :
             IF sel.err # "none" THEN Res(s, sel.err, <<"select">>)
             ELSE IF sel.ids # {}
             THEN After(<<"select">>, async_delete_objects(s, sel.ids, auto_commit))
             ELSE IF ~allow_no_result THEN Res(s, "NoResultFound", <<"select">>)
             ELSE Res(s, "ok", <<"select">>))
    ELSE Then(_build_where_stmt(where), LAMBDA b :
             IF b.err # "none" THEN OnError(s, auto_commit, b.err, <<>>)
             ELSE RunStatement(s, ExecDelete(s.tx, RowsWhere(s.tx, b.preds)), auto_commit,
                               FALSE, ~allow_no_result))

async_delete_all(s, auto_commit) ==
    RunStatement(s, ExecDelete(s.tx, DOMAIN s.tx), auto_commit, FALSE, FALSE)

-----------------------------------------------------------------------------
(* save (core/models/mixins/async_/_create.py).  self is an object the     *)
(* session already holds (persistent, its row is self.id) or a new one     *)
(* (its attributes are self.attrs).                                        *)

async_save(s, self, auto_commit, kwargs) ==
    LET id == IF Has(kwargs, "id") THEN kwargs.id ELSE self.id
        cols == [k \in DOMAIN kwargs \cap Columns |-> kwargs[k]]
        attrs == [k \in DOMAIN self.attrs \cup DOMAIN cols \cup {"id"} |->
                     IF k \in DOMAIN cols THEN cols[k]
                     ELSE IF k = "id" THEN self.id ELSE self.attrs[k]]
    IN  Then(IF self.persistent THEN SetAttrs(s, self.id, kwargs) ELSE s, LAMBDA s1 :
            IF s.inactive THEN OnError(s1, auto_commit, "PendingRollbackError", <<"get">>)
            ELSE IF ~self.persistent /\ ~SessionGet(s1, id)
            THEN CommitCreate([s1 EXCEPT !.new = Append(s1.new, attrs)], auto_commit,
                              <<"get", "add">>)
            ELSE CommitCreate(s1, auto_commit, <<"get">>))

-----------------------------------------------------------------------------
(* The older mixins (databases/rdb/mixins) *)

\* CreateMixin.async_insert of databases/rdb/mixins/create.py: the
\* IntegrityError branch re-raises without a rollback.
CreateMixin_async_insert(s, g, auto_commit, kwargs) ==
    LET s1 == [s EXCEPT !.new = Append(s.new, BaseMixin_init(kwargs, g))] IN
    IF ~auto_commit THEN Res(s1, "ok", <<"add">>)
    ELSE Then(SessionCommit(s1), LAMBDA c :
             IF c.err = "none" THEN Res(c.s, "ok", <<"add", "commit">>)
             ELSE IF c.err \in {"NotNullViolation", "UniqueViolation(id)"}
             THEN Res(c.s, "IntegrityError", <<"add", "commit">>)
             ELSE OnError(c.s, auto_commit, c.err, <<"add", "commit">>))

\* if auto_commit: commit(), inside a try block that re-raises errors as they are
CommitSync(s, auto_commit, calls) ==
    IF ~auto_commit THEN Res(s, "ok", calls)
    ELSE Then(SessionCommit(s), LAMBDA c :
             IF c.err = "none" THEN Res(c.s, "ok", Append(calls, "commit"))
             ELSE OnError(c.s, auto_commit, c.err, Append(calls, "commit")))

\* The try block of the sync statement-mode updates: execute, commit, no
\* not-found check.
RunStatementSync(s, r, auto_commit) ==
    Then(SessionExecute(s, r), LAMBDA e :
        IF e.err # "none" THEN OnError(e.s, auto_commit, e.err, <<"execute">>)
        ELSE CommitSync(e.s, auto_commit, <<"execute">>))

\* UpdateMixin.update_by_ids of databases/rdb/mixins/sync/update.py: kwargs
\* go to values() as they are, id included.
update_by_ids(s, ids, auto_commit, returning, kwargs) ==
    IF DOMAIN kwargs = {} THEN Res(s, "ValueError", <<>>)
    ELSE IF ids = {} THEN Res(s, "ok", <<>>)
    ELSE RunStatementSync(s, ExecUpdate(s.tx, ids, kwargs), auto_commit)

\* UpdateMixin.update_objects of databases/rdb/mixins/sync/update.py: the id
\* key and the None values are skipped.
update_objects(s, args, auto_commit, kwargs) ==
    IF ~Has(args, "orm_objects") THEN Res(s, "TypeError", <<>>)
    ELSE IF DOMAIN kwargs = {} THEN Res(s, "ValueError", <<>>)
    ELSE IF args.orm_objects = {} THEN Res(s, "ok", <<>>)
    ELSE CommitSync(SetAll(s, args.orm_objects,
                           [k \in {f \in DOMAIN kwargs \ {"id"} : ~IsNull(f, kwargs[f])}
                               |-> kwargs[k]]),
                    auto_commit, <<>>)

\* UpdateMixin.update_by_where of databases/rdb/mixins/sync/update.py
update_by_where(s, where, orm_way, auto_commit, returning, kwargs) ==
    IF DOMAIN kwargs = {} THEN Res(s, "ValueError", <<>>)
    ELSE Then(BaseMixin_build_where(where), LAMBDA b :
        IF orm_way
        THEN IF b.err # "none" THEN Res(s, b.err, <<"select">>)
             ELSE IF s.inactive THEN Res(s, "PendingRollbackError", <<"select">>)
             ELSE Then(RowsWhere(s.tx, b.preds), LAMBDA D :
                      IF D = {} THEN Res(s, "ok", <<"select">>)
                      ELSE After(<<"select">>,
                                 update_objects(s, [objects |-> D], auto_commit, kwargs)))
        ELSE IF b.err # "none" THEN OnError(s, auto_commit, b.err, <<>>)
             ELSE RunStatementSync(s, ExecUpdate(s.tx, RowsWhere(s.tx, b.preds), kwargs),
                                   auto_commit))

-----------------------------------------------------------------------------
(* Transactions: operations called one after another on one session, by a  *)
(* caller that may also commit or roll back itself.                        *)

K1 == [id |-> "X", name |-> NameA, point |-> 10]
KwCreate == {K1, [name |-> NameB], [id |-> "Y", name |-> NullName]}
KwUpdate == {[point |-> 50], [id |-> "Y", point |-> 10], [name |-> NullName]}
IdSets == {{"X"}, {"X", "Y"}}
Wheres == {<<[column |-> "point", op |-> "ge", value |-> 50]>>,
           <<[column |-> "name", value |-> NameA]>>}
TxTables == {EmptyTable, Put(EmptyTable, "X", [name |-> NameA, point |-> 50])}
Selves(s) ==
    {[persistent |-> TRUE, id |-> i, attrs |-> [name |-> NameA]] : i \in DOMAIN s.tx \cap Ids}
    \cup {[persistent |-> FALSE, id |-> "Y", attrs |-> [name |-> NameB, point |-> 50]]}

\* gen_unique_id(): an id no row and no pending object has
GenPool == {"G" \o ToString(n) : n \in 1..(MaxSteps + 1)}
gen_unique_id(s) ==
    CHOOSE g \in GenPool :
        g \notin DOMAIN s.tx \cup DOMAIN s.db \cup {s.new[n].id : n \in 1..Len(s.new)}

NoCall == [op |-> "init", orm_way |-> FALSE, auto_commit |-> FALSE, returning |-> FALSE,
           id |-> "", ids |-> {}, where |-> <<>>, kwargs |-> [k \in {} |-> 0],
           out |-> "ok", calls |-> <<>>, repeat |-> FALSE]
Idle == [op |-> "idle"]

\* One call: the session moves to the operation's result and last records the call.
Record(c, r) ==
    /\ session' = r.s
    /\ last' = [c EXCEPT !.out = r.out, !.calls = r.calls] @@ [pre |-> session]
    /\ UNCHANGED <<runs, pager, query>>

Called(c, r) ==
    /\ steps < MaxSteps
    /\ steps' = steps + 1
    /\ Record(c, r)

Call(op, orm_way, auto_commit, returning) ==
    [NoCall EXCEPT !.op = op, !.orm_way = orm_way, !.auto_commit = auto_commit,
                   !.returning = returning]

Insert ==
    \E kw \in KwCreate, o, a \in BOOLEAN :
        Called([Call("insert", o, a, TRUE) EXCEPT !.kwargs = kw],
               async_insert(session, gen_unique_id(session), o, TRUE, a, kw))

Upsert ==
    \E kw \in KwCreate \cup {[id |-> "X", point |-> 10]}, o, a \in BOOLEAN :
        Called([Call("upsert", o, a, TRUE) EXCEPT !.kwargs = kw,
                   !.repeat = /\ last.op = "upsert" /\ last.out = "ok" /\ last.kwargs = kw
                              /\ last.orm_way = o /\ last.auto_commit = a],
               async_upsert(session, gen_unique_id(session), o, TRUE, a, kw))

Save ==
    \E self \in Selves(session), kw \in KwUpdate, a \in BOOLEAN :
        Called([Call("save", TRUE, a, TRUE) EXCEPT !.id = self.id, !.kwargs = kw],
               async_save(session, self, a, kw))

UpdateById ==
    \E i \in Ids, kw \in KwUpdate, o, a, r \in BOOLEAN :
        Called([Call("update_by_id", o, a, r) EXCEPT !.id = i, !.kwargs = kw],
               async_update_by_id(session, i, o, r, a, kw))

UpdateByIds ==
    \E D \in IdSets, kw \in KwUpdate, a, r \in BOOLEAN :
        Called([Call("update_by_ids", FALSE, a, r) EXCEPT !.ids = D, !.kwargs = kw],
               async_update_by_ids(session, D, r, a, kw))

UpdateByWhere ==
    \E w \in Wheres, kw \in KwUpdate, o, a, n \in BOOLEAN :
        Called([Call("update_by_where", o, a, n) EXCEPT !.where = w, !.kwargs = kw],
               async_update_by_where(session, w, o, FALSE, a, n, kw))

UpdateAll ==
    \E kw \in KwUpdate, a \in BOOLEAN :
        Called([Call("update_all", FALSE, a, FALSE) EXCEPT !.kwargs = kw],
               async_update_all(session, a, kw))

DeleteById ==
    \E i \in Ids, o, a \in BOOLEAN :
        Called([Call("delete_by_id", o, a, FALSE) EXCEPT !.id = i],
               async_delete_by_id(session, i, o, a))

DeleteByIds ==
    \E D \in IdSets, a \in BOOLEAN :
        Called([Call("delete_by_ids", FALSE, a, FALSE) EXCEPT !.ids = D],
               async_delete_by_ids(session, D, a))

DeleteByWhere ==
    \E w \in Wheres, o, a, n \in BOOLEAN :
        Called([Call("delete_by_where", o, a, n) EXCEPT !.where = w],
               async_delete_by_where(session, w, o, a, n))

DeleteAll ==
    \E a \in BOOLEAN :
        Called(Call("delete_all", FALSE, a, FALSE),
               async_delete_all(session, a))

RdbInsert ==
    \E kw \in KwCreate, a \in BOOLEAN :
        Called([Call("rdb_insert", TRUE, a, TRUE) EXCEPT !.kwargs = kw],
               CreateMixin_async_insert(session, gen_unique_id(session), a, kw))

SyncUpdateByIds ==
    \E D \in IdSets, kw \in KwUpdate, a, r \in BOOLEAN :
        Called([Call("sync_update_by_ids", FALSE, a, r) EXCEPT !.ids = D, !.kwargs = kw],
               update_by_ids(session, D, a, r, kw))

SyncUpdateByWhere ==
    \E w \in Wheres, kw \in KwUpdate, o, a \in BOOLEAN :
        Called([Call("sync_update_by_where", o, a, FALSE) EXCEPT !.where = w, !.kwargs = kw],
               update_by_where(session, w, o, a, FALSE, kw))

\* The caller of an auto_commit=False operation commits the session itself.
CallerCommit ==
    /\ last.op \notin {"init", "commit", "rollback"}
    /\ Record([Call("commit", last.orm_way, FALSE, FALSE) EXCEPT !.repeat = last.repeat,
                                                                 !.kwargs = last.kwargs],
              Then(SessionCommit(session), LAMBDA c :
                  Res(c.s, IF c.err = "none" THEN "ok" ELSE c.err, <<"commit">>)))
    /\ UNCHANGED steps

CallerRollback ==
    /\ last.op \notin {"init", "rollback"}
    /\ Record(Call("rollback", FALSE, FALSE, FALSE),
              Res(SessionRollback(session), "ok", <<"rollback">>))
    /\ UNCHANGED steps

InitTx ==
    /\ \E t \in TxTables : session = NewSession(t)
    /\ last = NoCall @@ [pre |-> NewSession(EmptyTable)]
    /\ steps = 0
    /\ runs = Idle
    /\ pager = Idle
    /\ query = Idle

NextTx ==
    \/ Insert \/ Upsert \/ Save
    \/ UpdateById \/ UpdateByIds \/ UpdateByWhere \/ UpdateAll
    \/ DeleteById \/ DeleteByIds \/ DeleteByWhere \/ DeleteAll
    \/ RdbInsert \/ SyncUpdateByIds \/ SyncUpdateByWhere
    \/ CallerCommit \/ CallerRollback

SpecTx == InitTx /\ [][NextTx]_vars

-----------------------------------------------------------------------------
(* Properties of the transactions *)

CallerOps == {"init", "commit", "rollback"}
UpdateOps == {"update_by_id", "update_by_ids", "update_by_where", "update_all", "save",
              "upsert", "sync_update_by_ids", "sync_update_by_where"}
NotFoundOps == {"update_by_id", "update_by_ids", "update_by_where",
                "delete_by_id", "delete_by_ids", "delete_by_where"}
Rejections == {"NullConstraintError", "PrimaryKeyError", "UniqueKeyError", "IntegrityError",
               "NotNullViolation", "UniqueViolation(id)", "CompileError", "StaleDataError"}
Made(c) == \E n \in 1..Len(last.calls) : last.calls[n] = c
Pending(s) == s.tx # s.db \/ s.new # <<>> \/ DOMAIN s.dirty # {} \/ s.deleted # {}

\* C1: a mutating operation called with auto_commit=true has committed the
\* session's transaction when it returns normally, and has rolled it back
\* when the storage engine rejected the write.
C1_AutoCommitCommitsOrRollsBack ==
    (last.op \notin CallerOps /\ last.auto_commit) =>
        /\ last.out = "ok" => ~Pending(session)
        /\ last.out \in Rejections => (~session.inactive /\ ~Pending(session) /\ Made("rollback"))

\* C2: with auto_commit=true, an update or delete that ends with NotFound
\* because zero rows were affected has not committed: the committed table is
\* what it was before the call.
C2_NotFoundHasNotCommitted ==
    (last.op \in NotFoundOps /\ last.auto_commit /\ last.out = "NoResultFound") =>
        session.db = last.pre.db

C9_IdNeverChanges ==
    /\ (last.op \in UpdateOps /\ last.out = "ok" /\ last.pre.deleted = {}) =>
           DOMAIN last.pre.tx \subseteq DOMAIN session.tx
    /\ (last.op = "insert" /\ last.out = "ok" /\ last.auto_commit /\ Has(last.kwargs, "id")) =>
           last.kwargs.id \in DOMAIN session.db

\* C10: upsert of the same id and values twice in succession on one session,
\* in either mode, with auto_commit=true or with auto_commit=false and the
\* caller's commit, succeeds both times and leaves one row with that id and
\* those values.
C10_UpsertTwice ==
    (last.repeat /\ last.kwargs = K1) =>
        /\ last.out = "ok"
        /\ (last.auto_commit \/ last.op = "commit") =>
               /\ "X" \in DOMAIN session.db
               /\ session.db["X"] = [name |-> NameA, point |-> 10]

\* C14: an insert whose explicit id is already the id of a row of the table
\* raises PrimaryKeyError, in statement mode and in instance mode.
C14_DuplicateIdIsPrimaryKeyError ==
    (/\ last.op \in {"insert", "rdb_insert"} /\ ~last.pre.inactive
     /\ Has(last.kwargs, "id") /\ last.kwargs.id \in DOMAIN last.pre.tx
     /\ Has(last.kwargs, "name") /\ ~HasNull(last.kwargs) /\ ~HasUnknown(last.kwargs)) =>
        last.out = "PrimaryKeyError"

\* The ids of the objects passed to session.add and not yet flushed
PendingIds(s) == {s.new[n].id : n \in 1..Len(s.new)}

\* delete_by_id is called with an id that no row has, committed or not
AbsentId ==
    /\ last.op = "delete_by_id" /\ ~last.pre.inactive
    /\ last.id \notin DOMAIN last.pre.tx \cup DOMAIN last.pre.db \cup PendingIds(last.pre)

\* The session held no write of its own before the call
CleanBefore ==
    /\ last.pre.tx = last.pre.db /\ last.pre.new = <<>>
    /\ last.pre.dirty = NoDirty /\ last.pre.deleted = {}

\* C20: delete_by_id with an id that is not in the table raises NotFound, in
\* statement mode and in instance mode, and the table is what it was before
\* the call.
C20_DeleteByIdOfAbsentId ==
    AbsentId =>
        /\ last.out = "NoResultFound"
        /\ session.db = last.pre.db
        /\ session.tx = last.pre.tx

\* The same on a session that held no write of its own before the call
DeleteByIdOfAbsentIdOnCleanSession ==
    (AbsentId /\ CleanBefore) =>
        /\ last.out = "NoResultFound"
        /\ session.db = last.pre.db
        /\ session.tx = last.pre.tx

-----------------------------------------------------------------------------
(* Modes: one write, given the same inputs and the same initial table, run *)
(* once in statement mode and once in instance mode, each on a fresh       *)
(* session.                                                                *)

ModeRows == {[name |-> NameA, point |-> 10], [name |-> NameAB, point |-> 50]}
ModeTables ==
    {EmptyTable} \cup {Put(EmptyTable, "X", r) : r \in ModeRows}
    \cup {Put(Put(EmptyTable, "X", r), "Y", q) : r, q \in ModeRows}
KwModeCreate == {K1, [id |-> "Y", name |-> NameB], [id |-> "X", point |-> 10],
                 [id |-> "X", name |-> NameA, bogus |-> 1]}
KwModeUpdate == {[point |-> 10], [name |-> NullName], [id |-> "Y", name |-> NameB]}
ModeWheres == {<<[column |-> "point", op |-> "ge", value |-> 50]>>,
               <<[column |-> "name", op |-> "like", value |-> NameA]>>,
               <<[column |-> "id", value |-> "X"], [column |-> "point", op |-> "lt", value |-> 50]>>}

\* The committed table once the caller's transaction is committed
Final(r, auto_commit) ==
    IF auto_commit \/ r.out # "ok" THEN SessionRollback(r.s).db
    ELSE SessionCommit(r.s).s.db

\* What the two runs of one operation left behind
Ran(op, t, auto_commit, kw, stmt, orm) ==
    [op |-> op, table |-> t, auto_commit |-> auto_commit, kwargs |-> kw,
     stmt_out |-> stmt.out, stmt_db |-> Final(stmt, auto_commit),
     orm_out |-> orm.out, orm_db |-> Final(orm, auto_commit)]

ModeInsert ==
    \E t \in ModeTables, kw \in KwModeCreate, a \in BOOLEAN :
        /\ runs = Idle
        /\ runs' = Ran("insert", t, a, kw,
                     async_insert(NewSession(t), "G1", FALSE, TRUE, a, kw),
                     async_insert(NewSession(t), "G1", TRUE, TRUE, a, kw))
        /\ UNCHANGED <<session, last, steps, pager, query>>

ModeUpsert ==
    \E t \in ModeTables, kw \in KwModeCreate, a \in BOOLEAN :
        /\ runs = Idle
        /\ runs' = Ran("upsert", t, a, kw,
                     async_upsert(NewSession(t), "G1", FALSE, TRUE, a, kw),
                     async_upsert(NewSession(t), "G1", TRUE, TRUE, a, kw))
        /\ UNCHANGED <<session, last, steps, pager, query>>

ModeUpdateById ==
    \E t \in ModeTables, i \in Ids, kw \in KwModeUpdate, a \in BOOLEAN :
        /\ runs = Idle
        /\ runs' = Ran("update_by_id", t, a, kw,
                     async_update_by_id(NewSession(t), i, FALSE, TRUE, a, kw),
                     async_update_by_id(NewSession(t), i, TRUE, TRUE, a, kw))
        /\ UNCHANGED <<session, last, steps, pager, query>>

ModeDeleteById ==
    \E t \in ModeTables, i \in Ids, a \in BOOLEAN :
        /\ runs = Idle
        /\ runs' = Ran("delete_by_id", t, a, [id |-> i],
                     async_delete_by_id(NewSession(t), i, FALSE, a),
                     async_delete_by_id(NewSession(t), i, TRUE, a))
        /\ UNCHANGED <<session, last, steps, pager, query>>

ModeUpdateByWhere ==
    \E t \in ModeTables, w \in ModeWheres, kw \in KwModeUpdate, a \in BOOLEAN :
        /\ runs = Idle
        /\ runs' = Ran("update_by_where", t, a, kw,
                     async_update_by_where(NewSession(t), w, FALSE, FALSE, a, TRUE, kw),
                     async_update_by_where(NewSession(t), w, TRUE, FALSE, a, TRUE, kw))
        /\ UNCHANGED <<session, last, steps, pager, query>>

ModeDeleteByWhere ==
    \E t \in ModeTables, w \in ModeWheres, a \in BOOLEAN :
        /\ runs = Idle
        /\ runs' = Ran("delete_by_where", t, a, [where |-> w],
                     async_delete_by_where(NewSession(t), w, FALSE, a, FALSE),
                     async_delete_by_where(NewSession(t), w, TRUE, a, FALSE))
        /\ UNCHANGED <<session, last, steps, pager, query>>

ModeSyncUpdateByWhere ==
    \E t \in ModeTables, w \in ModeWheres, kw \in KwModeUpdate, a \in BOOLEAN :
        /\ runs = Idle
        /\ runs' = Ran("sync_update_by_where", t, a, kw,
                     update_by_where(NewSession(t), w, FALSE, a, TRUE, kw),
                     update_by_where(NewSession(t), w, TRUE, a, TRUE, kw))
        /\ UNCHANGED <<session, last, steps, pager, query>>

InitModes ==
    /\ runs = Idle
    /\ session = NewSession(EmptyTable)
    /\ last = NoCall
    /\ steps = 0
    /\ pager = Idle
    /\ query = Idle

NextModes ==
    \/ ModeInsert \/ ModeUpsert \/ ModeUpdateById \/ ModeDeleteById
    \/ ModeUpdateByWhere \/ ModeDeleteByWhere \/ ModeSyncUpdateByWhere

SpecModes == InitModes /\ [][NextModes]_vars

\* C4: update_by_where and delete_by_where leave the table in the same final
\* state in statement mode and in instance mode, for the same conditions,
\* the same field values (a null among them) and the same initial table.
C4_WhereModesAgree ==
    (runs.op \in {"update_by_where", "delete_by_where", "sync_update_by_where"}) =>
        runs.stmt_db = runs.orm_db

\* C5: insert, upsert, update_by_id and delete_by_id produce the same final
\* storage state in statement mode and in instance mode, for the same id,
\* field names and values and the same initial table, once the caller's
\* transaction is committed.
C5_ModesAgree ==
    (runs.op \in {"insert", "upsert", "update_by_id", "delete_by_id"}) =>
        runs.stmt_db = runs.orm_db

-----------------------------------------------------------------------------
(* Paged reads: BaseMixin._build_select (core/models/mixins/_base.py) and  *)
(* select_by_where.  The storage engine may return rows that compare equal *)
(* on every ORDER BY key in any order, and may choose anew on each query.  *)

PageId(n) == "R" \o ToString(n)
IdRank(i) == CHOOSE n \in 1..(MaxRows + 1) : PageId(n) = i
CharRank(c) == IF c = "a" THEN 1 ELSE 2
NameRank(v) == 3 * CharRank(v[1]) + (IF Len(v) > 1 THEN CharRank(v[2]) ELSE 0)

\* The position of a row's value in the ascending order of the column
Rank(t, i, col) ==
    CASE col = "id" -> IdRank(i)
      [] col = "name" -> NameRank(t[i].name)
      [] col = "point" -> t[i].point

\* order_by(...) of the columns that are attributes, without the final id
OrderByGiven(order_by) == SelectSeq(order_by, LAMBDA c : c \in Columns)

\* order_by(...) of the columns that are attributes, then order_by(id)
OrderBy(order_by) == SelectSeq(order_by, LAMBDA c : c \in Columns) \o <<"id">>

_build_select(where, offset, limit, order_by, is_desc, disable_limit) ==
    LET b == IF where # <<>> THEN _build_where(where) ELSE [err |-> "none", preds |-> <<>>]
    IN  [err |-> b.err, preds |-> b.preds, keys |-> OrderBy(order_by), is_desc |-> is_desc,
         offset |-> offset, limit |-> limit, disable_limit |-> disable_limit]

\* Row i sorts strictly before row j under the keys and the direction
RECURSIVE Before(_, _, _, _, _)
Before(t, i, j, keys, is_desc) ==
    IF keys = <<>> THEN FALSE
    ELSE LET a == Rank(t, i, Head(keys))
             b == Rank(t, j, Head(keys))
         IN  IF a = b THEN Before(t, i, j, Tail(keys), is_desc)
             ELSE IF is_desc THEN a > b ELSE a < b

\* Every order in which the engine may return the rows D
Orders(t, D, keys, is_desc) ==
    {f \in [1..Cardinality(D) -> D] :
        /\ \A m, n \in 1..Cardinality(D) : m # n => f[m] # f[n]
        /\ \A m, n \in 1..Cardinality(D) : m < n => ~Before(t, f[n], f[m], keys, is_desc)}

Window(f, offset, limit, disable_limit) ==
    IF disable_limit THEN f
    ELSE SubSeq(f, offset + 1, IF offset + limit < Len(f) THEN offset + limit ELSE Len(f))

SeqRange(f) == {f[n] : n \in 1..Len(f)}

\* session.execute(stmt).scalars().all() of the deferred-join statement: the
\* subquery takes its window of ids, the main query orders the joined rows.
ExecSelect(t, stmt) ==
    UNION {Orders(t, SeqRange(Window(sub, stmt.offset, stmt.limit, stmt.disable_limit)),
                  stmt.keys, stmt.is_desc) :
           sub \in Orders(t, RowsWhere(t, stmt.preds), stmt.keys, stmt.is_desc)}

PageRows == [name : {NameA}, point : {10, 50}]
RECURSIVE PageTables(_)
PageTables(n) ==
    IF n = 0 THEN {EmptyTable}
    ELSE PageTables(n - 1) \cup
         {Put(t, PageId(n), r) : t \in {u \in PageTables(n - 1) : Cardinality(DOMAIN u) = n - 1},
                                  r \in PageRows}
PageWheres == {<<>>, <<[column |-> "point", op |-> "le", value |-> 50]>>}
PageOrders == {<<>>, <<"point">>, <<"name", "point">>, <<"created", "point">>}

\* The caller asks for the first page
InitPage ==
    /\ \E t \in PageTables(MaxRows), w \in PageWheres, o \in PageOrders,
          d \in BOOLEAN, k \in 1..2 :
          pager = [op |-> "paging", table |-> t, where |-> w, order_by |-> o, is_desc |-> d,
                   limit |-> k, offset |-> 0, pages |-> <<>>, done |-> FALSE]
    /\ session = NewSession(EmptyTable)
    /\ last = NoCall
    /\ steps = 0
    /\ runs = Idle
    /\ query = Idle

\* select_by_where(where, offset, limit, order_by, is_desc); the caller
\* moves on by limit until a page comes back empty
FetchPage ==
    /\ ~pager.done
    /\ \E page \in ExecSelect(pager.table,
                              _build_select(pager.where, pager.offset, pager.limit,
                                            pager.order_by, pager.is_desc, FALSE)) :
          pager' = [pager EXCEPT !.pages = Append(@, page),
                                 !.offset = @ + pager.limit,
                                 !.done = (page = <<>>)]
    /\ UNCHANGED <<session, last, steps, runs, query>>

NextPage == FetchPage

SpecPage == InitPage /\ [][NextPage]_vars

RECURSIVE Concat(_)
Concat(pages) == IF pages = <<>> THEN <<>> ELSE Head(pages) \o Concat(Tail(pages))

Matching == RowsWhere(pager.table, _build_where(pager.where).preds)

\* C6: for a fixed table, filter, order_by and direction, the pages of
\* select_by_where at offsets 0, k, 2k, ... with limit k, concatenated, hold
\* every matching row exactly once, also when rows tie on the order_by column.
C6_PagesPartitionTheRows ==
    pager.done =>
        /\ SeqRange(Concat(pager.pages)) = Matching
        /\ Len(Concat(pager.pages)) = Cardinality(Matching)

\* Paging by one through rows that tie on the order_by column has ended
C6_Witness ==
    /\ pager.done /\ pager.limit = 1 /\ pager.order_by = <<"point">>
    /\ Len(pager.pages) >= 3
    /\ \E i, j \in Matching : i # j /\ pager.table[i].point = pager.table[j].point

\* C18: an order_by entry that is not a column of the entity type makes
\* select_by_where fail before any statement is sent: no page is ever
\* returned for such a call.
C18_UnknownOrderByFails ==
    (\E n \in DOMAIN pager.order_by : pager.order_by[n] \notin Columns) =>
        pager.pages = <<>>

-----------------------------------------------------------------------------
(* Filtered reads: select_by_where with a list of conditions, through the  *)
(* filter builder of core/models/mixins and through the older one of       *)
(* databases/rdb/mixins.                                                   *)

Conds ==
    <<[column |-> "point", op |-> "eq", value |-> 10],
      [column |-> "point", op |-> "ne", value |-> 10],
      [column |-> "name", op |-> "like", value |-> NameA],
      [column |-> "point", op |-> "gt", value |-> 10],
      [column |-> "point", op |-> "ge", value |-> 50],
      [column |-> "point", op |-> "lt", value |-> 50],
      [column |-> "point", op |-> "le", value |-> 10],
      [column |-> "point", op |-> "between", value |-> <<10, 50>>],
      [column |-> "id", op |-> "!=", value |-> "X"],
      [column |-> "name", value |-> NameAB],
      [column |-> "point", op |-> "in", value |-> <<10>>]>>
WhereLists ==
    UNION {{[n \in 1..k |-> Conds[f[n]]] : f \in [1..k -> 1..Len(Conds)]} : k \in 1..MaxConds}
WhereTables ==
    {Put(Put(EmptyTable, "X", [name |-> NameA, point |-> 10]),
         "Y", [name |-> NameAB, point |-> 50]),
     Put(Put(EmptyTable, "X", [name |-> NameB, point |-> 50]),
         "Y", [name |-> NameAB, point |-> DefaultPoint]),
     Put(EmptyTable, "Y", [name |-> NameA, point |-> 10])}

\* ReadMixin.select_by_where of databases/rdb/mixins/read.py, disable_limit=True
ReadMixin_select_by_where(s, where) ==
    Then(BaseMixin_build_where(where), LAMBDA b :
        IF b.err # "none" THEN [err |-> b.err, ids |-> {}]
        ELSE IF s.inactive THEN [err |-> "PendingRollbackError", ids |-> {}]
        ELSE [err |-> "none", ids |-> RowsWhere(s.tx, b.preds)])

Asked(op, t, w, b, r) ==
    [op |-> op, table |-> t, where |-> w, err |-> r.err, preds |-> b.preds, rows |-> r.ids]

SelectByWhere ==
    \E t \in WhereTables, w \in WhereLists :
        /\ query.op = "init"
        /\ query' = Asked("select_by_where", t, w, _build_where(w),
                          async_select_by_where(NewSession(t), w))
        /\ UNCHANGED <<session, last, steps, runs, pager>>

RdbSelectByWhere ==
    \E t \in WhereTables, w \in WhereLists :
        /\ query.op = "init"
        /\ query' = Asked("rdb_select_by_where", t, w, BaseMixin_build_where(w),
                          ReadMixin_select_by_where(NewSession(t), w))
        /\ UNCHANGED <<session, last, steps, runs, pager>>

InitWhere ==
    /\ query = [op |-> "init", table |-> EmptyTable, where |-> <<>>, err |-> "none",
                preds |-> <<>>, rows |-> {}]
    /\ session = NewSession(EmptyTable)
    /\ last = NoCall
    /\ steps = 0
    /\ runs = Idle
    /\ pager = Idle

NextWhere == SelectByWhere \/ RdbSelectByWhere

SpecWhere == InitWhere /\ [][NextWhere]_vars

\* The operators the filter description names, and what each asks of a row
FilterOperators == {"eq", "ne", "!=", "like", "gt", "ge", "lt", "le", "between"}
Satisfies(t, i, c) ==
    LET v == ColValue(t, i, c.column) IN
    CASE c.op = "eq" -> v = c.value
      [] c.op \in {"ne", "!="} -> v # c.value
      [] c.op = "like" -> Contains(v, c.value)
      [] c.op = "gt" -> v > c.value
      [] c.op = "ge" -> v >= c.value
      [] c.op = "lt" -> v < c.value
      [] c.op = "le" -> v <= c.value
      [] c.op = "between" -> c.value[1] <= v /\ v <= c.value[2]

\* C7: select_by_where with a list of conditions returns exactly the rows
\* that satisfy every condition of the list, each under its operator
\* (equality, inequality, like, gt, ge, lt, le, between).
C7_ExactlyTheRowsOfEveryCondition ==
    (/\ query.err = "none"
     /\ \A n \in 1..Len(query.where) :
            Has(query.where[n], "op") /\ query.where[n].op \in FilterOperators) =>
        query.rows = {i \in DOMAIN query.table :
                         \A n \in 1..Len(query.where) : Satisfies(query.table, i, query.where[n])}

\* C8: the filter builder appends a predicate for each condition of the
\* list, whatever the condition's operator field holds: the built query
\* omits no condition.
C8_NoConditionOmitted ==
    query.err = "none" => Len(query.preds) = Len(query.where)

-----------------------------------------------------------------------------
(* Timestamps.  TimestampMixin gives every row created_at and updated_at,  *)
(* both with server_default CURRENT_TIMESTAMP; the trigger tr__updated_at  *)
(* runs fn_tr__updated_at before every UPDATE of a row.  In the storage    *)
(* engine CURRENT_TIMESTAMP is the start time of the current transaction.  *)
(* The session here is the session above with a clock: now is the time of  *)
(* the storage engine, open says whether a transaction has begun and start *)
(* is the time it began.  A row holds name, point, created_at, updated_at. *)

MaxCalls == 3

Epoch == 0
StampColumns == Columns \cup {"created_at", "updated_at"}

NoStamped == [i \in {} |-> [name |-> NameA, point |-> 0, created_at |-> 0, updated_at |-> 0]]

StampedSession(t, now) ==
    [db |-> t, tx |-> t, new |-> <<>>, dirty |-> NoDirty, open |-> FALSE, start |-> Epoch,
     now |-> now]

\* The first statement after a commit or rollback begins the transaction.
Begin(s) == IF s.open THEN s ELSE [s EXCEPT !.open = TRUE, !.start = s.now]

CURRENT_TIMESTAMP(s) == s.start

\* The row an INSERT stores: server defaults for the columns not given
server_default(kw, ts) ==
    [name       |-> kw.name,
     point      |-> IF Has(kw, "point") THEN kw.point ELSE DefaultPoint,
     created_at |-> IF Has(kw, "created_at") THEN kw.created_at ELSE ts,
     updated_at |-> IF Has(kw, "updated_at") THEN kw.updated_at ELSE ts]

\* NEW."updated_at" = CURRENT_TIMESTAMP; RETURN NEW;
fn_tr__updated_at(new_row, ts) == [new_row EXCEPT !.updated_at = ts]

\* UPDATE ... SET <kw> on one row, through the BEFORE UPDATE trigger
tr__updated_at(row, kw, ts) ==
    fn_tr__updated_at([k \in DOMAIN row |-> IF Has(kw, k) THEN kw[k] ELSE row[k]], ts)

\* The INSERTs of a flush
RECURSIVE StampedFlushNew(_, _, _)
StampedFlushNew(t, new, ts) ==
    IF new = <<>> THEN StmtOk(t, 0)
    ELSE IF Head(new).id \in DOMAIN t THEN StmtErr(t, "UniqueViolation(id)")
    ELSE StampedFlushNew(Put(t, Head(new).id, server_default(Head(new), ts)), Tail(new), ts)

\* The UPDATEs of a flush
StampedFlushDirty(t, dirty, ts) ==
    IF DOMAIN dirty \ DOMAIN t # {} THEN StmtErr(t, "StaleDataError")
    ELSE StmtOk([i \in DOMAIN t |->
                    IF i \in DOMAIN dirty THEN tr__updated_at(t[i], dirty[i], ts) ELSE t[i]],
                Cardinality(DOMAIN dirty))

StampedRollback(s) ==
    [s EXCEPT !.tx = s.db, !.new = <<>>, !.dirty = NoDirty, !.open = FALSE]

\* session.commit(): flush what is pending, then end the transaction
StampedCommit(s) ==
    IF s.new = <<>> /\ DOMAIN s.dirty = {}
    THEN [err |-> "none", s |-> [s EXCEPT !.db = s.tx, !.open = FALSE]]
    ELSE Then(Begin(s), LAMBDA b :
         Then(StampedFlushNew(b.tx, b.new, CURRENT_TIMESTAMP(b)), LAMBDA a :
            IF a.err # "none" THEN [err |-> a.err, s |-> StampedRollback(b)]
            ELSE Then(StampedFlushDirty(a.tx, b.dirty, CURRENT_TIMESTAMP(b)), LAMBDA d :
                IF d.err # "none" THEN [err |-> d.err, s |-> StampedRollback(b)]
                ELSE [err |-> "none",
                      s |-> [b EXCEPT !.db = d.tx, !.tx = d.tx, !.new = <<>>,
                                      !.dirty = NoDirty, !.open = FALSE]])))

\* if auto_commit: commit(); except: if auto_commit: rollback(); raise
StampedFinish(s, auto_commit, translate(_)) ==
    IF ~auto_commit THEN [s |-> s, out |-> "ok"]
    ELSE Then(StampedCommit(s), LAMBDA c :
             IF c.err = "none" THEN [s |-> c.s, out |-> "ok"]
             ELSE [s |-> StampedRollback(c.s), out |-> translate(c.err)])

StampedFail(s, auto_commit, out) ==
    [s |-> IF auto_commit THEN StampedRollback(s) ELSE s, out |-> out]

\* async_insert on the stamped session
TimestampMixin_async_insert(s, orm_way, auto_commit, kwargs) ==
    IF orm_way
    THEN StampedFinish([s EXCEPT !.new = Append(s.new, kwargs)], auto_commit, TranslateInsert)
    ELSE Then(Begin(s), LAMBDA b :
             IF kwargs.id \in DOMAIN b.tx
             THEN StampedFail(b, auto_commit, TranslateInsert("UniqueViolation(id)"))
             ELSE StampedFinish(
                      [b EXCEPT !.tx = Put(b.tx, kwargs.id,
                                           server_default(kwargs, CURRENT_TIMESTAMP(b)))],
                      auto_commit, TranslateInsert))

\* async_get on the stamped session: the object session.get returns (the row,
\* with the attributes set on it and not yet flushed), or the error
TimestampMixin_async_get(s, id) ==
    Then(Begin(s), LAMBDA b :
        IF id \notin DOMAIN b.tx THEN [s |-> b, out |-> "NoResultFound", got |-> "none"]
        ELSE [s |-> b, out |-> "ok",
              got |-> [k \in DOMAIN b.tx[id] |->
                          IF id \in DOMAIN b.dirty /\ Has(b.dirty[id], k) THEN b.dirty[id][k]
                          ELSE b.tx[id][k]]])

\* async_update on the stamped session: setattr of every key but id, then commit
TimestampMixin_async_update(s, id, auto_commit, kwargs) ==
    LET cols == [k \in (DOMAIN kwargs \ {"id"}) \cap StampColumns |-> kwargs[k]]
        old == IF id \in DOMAIN s.dirty THEN s.dirty[id] ELSE [k \in {} |-> 0]
        set == [k \in DOMAIN old \cup DOMAIN cols |->
                   IF k \in DOMAIN cols THEN cols[k] ELSE old[k]]
    IN  StampedFinish([s EXCEPT !.dirty = [j \in DOMAIN s.dirty \cup {id} |->
                                              IF j = id THEN set ELSE s.dirty[j]]],
                      auto_commit, TranslateUpdate)

\* async_update_by_id on the stamped session (returning=True)
TimestampMixin_async_update_by_id(s, id, orm_way, auto_commit, kwargs) ==
    IF DOMAIN kwargs = {} THEN [s |-> s, out |-> "EmptyValueError"]
    ELSE Then(Begin(s), LAMBDA b :
        IF orm_way
        THEN IF id \notin DOMAIN b.tx THEN [s |-> b, out |-> "NoResultFound"]
             ELSE TimestampMixin_async_update(b, id, auto_commit, kwargs)
        ELSE IF id \notin DOMAIN b.tx THEN StampedFail(b, auto_commit, "NoResultFound")
             ELSE StampedFinish(
                      [b EXCEPT !.tx[id] = tr__updated_at(@, Without(kwargs, "id"),
                                                          CURRENT_TIMESTAMP(b))],
                      auto_commit, TranslateUpdate))

\* async_upsert on the stamped session (kwargs holds the id)
TimestampMixin_async_upsert(s, orm_way, auto_commit, kwargs) ==
    Then(Begin(s), LAMBDA b :
        IF orm_way
        THEN IF kwargs.id \in DOMAIN b.tx
             THEN TimestampMixin_async_update(b, kwargs.id, auto_commit, kwargs)
             ELSE TimestampMixin_async_insert(b, TRUE, auto_commit, kwargs)
        ELSE IF kwargs.id \in DOMAIN b.tx
             THEN StampedFinish(
                      [b EXCEPT !.tx[kwargs.id] = tr__updated_at(@, Without(kwargs, "id"),
                                                                 CURRENT_TIMESTAMP(b))],
                      auto_commit, TranslateUpdate)
             ELSE StampedFinish(
                      [b EXCEPT !.tx = Put(b.tx, kwargs.id,
                                           server_default(kwargs, CURRENT_TIMESTAMP(b)))],
                      auto_commit, TranslateUpdate))

-----------------------------------------------------------------------------
(* Calls on the stamped session.  Time passes between two calls. *)

Task1 == [id |-> "X", name |-> NameA, point |-> 70]
KwStampedCreate == {Task1, [id |-> "Y", name |-> NameB]}
KwStampedUpdate == {[point |-> 80], [point |-> 80, created_at |-> Epoch]}
KwStampedUpsert == {[id |-> "X", name |-> NameA, point |-> 80],
                    [id |-> "X", name |-> NameA, created_at |-> Epoch]}
StampedTables == {NoStamped,
                  [i \in {"X"} |-> [name |-> NameA, point |-> 70,
                                    created_at |-> 1, updated_at |-> 1]]}

Tick(s) == [s EXCEPT !.now = @ + 1]

NoStampedCall == [op |-> "init", orm_way |-> FALSE, auto_commit |-> FALSE, id |-> "",
                  kwargs |-> [k \in {} |-> 0], out |-> "ok"]

\* One call: the session moves to the result; last records the call, the
\* transaction's table before it and the call made before it.
StampedRecord(c, r) ==
    /\ session' = r.s
    /\ last' = [c EXCEPT !.out = r.out]
                  @@ [got |-> IF "got" \in DOMAIN r THEN r.got ELSE "none",
                      pre |-> session.tx,
                      prev |-> [k \in DOMAIN NoStampedCall |-> last[k]]]
    /\ UNCHANGED <<runs, pager, query>>

StampedCalled(c, r) ==
    /\ steps < MaxCalls
    /\ steps' = steps + 1
    /\ StampedRecord(c, r)

TimeInsert ==
    \E kw \in KwStampedCreate, o, a \in BOOLEAN :
        StampedCalled([NoStampedCall EXCEPT !.op = "insert", !.orm_way = o, !.auto_commit = a,
                                            !.id = kw.id, !.kwargs = kw],
                      TimestampMixin_async_insert(Tick(session), o, a, kw))

TimeUpdateById ==
    \E i \in Ids, kw \in KwStampedUpdate, o, a \in BOOLEAN :
        StampedCalled([NoStampedCall EXCEPT !.op = "update_by_id", !.orm_way = o,
                                            !.auto_commit = a, !.id = i, !.kwargs = kw],
                      TimestampMixin_async_update_by_id(Tick(session), i, o, a, kw))

TimeUpsert ==
    \E kw \in KwStampedUpsert, o, a \in BOOLEAN :
        StampedCalled([NoStampedCall EXCEPT !.op = "upsert", !.orm_way = o, !.auto_commit = a,
                                            !.id = kw.id, !.kwargs = kw],
                      TimestampMixin_async_upsert(Tick(session), o, a, kw))

TimeGet ==
    \E i \in Ids :
        StampedCalled([NoStampedCall EXCEPT !.op = "get", !.id = i],
                      TimestampMixin_async_get(Tick(session), i))

\* The caller of an auto_commit=False operation commits the session itself.
TimeCommit ==
    /\ last.op \notin {"init", "commit", "get"}
    /\ StampedRecord([NoStampedCall EXCEPT !.op = "commit"],
                     Then(StampedCommit(Tick(session)), LAMBDA c :
                         [s |-> IF c.err = "none" THEN c.s ELSE StampedRollback(c.s),
                          out |-> IF c.err = "none" THEN "ok" ELSE c.err]))
    /\ UNCHANGED steps

InitTime ==
    /\ \E t \in StampedTables : session = StampedSession(t, 2)
    /\ last = NoStampedCall @@ [got |-> "none", pre |-> NoStamped, prev |-> NoStampedCall]
    /\ steps = 0
    /\ runs = Idle
    /\ pager = Idle
    /\ query = Idle

NextTime == TimeInsert \/ TimeUpdateById \/ TimeUpsert \/ TimeGet \/ TimeCommit

SpecTime == InitTime /\ [][NextTime]_vars

-----------------------------------------------------------------------------
(* Properties of the timestamps *)

\* C11: after insert(name, point) returned an entity with id I, get(I) on
\* the same session returns an entity with that id, name and point whose
\* created_at equals its updated_at, in either mode, with or without
\* auto_commit.
C11_GetAfterInsert ==
    (/\ last.op = "get" /\ last.prev.op = "insert" /\ last.prev.out = "ok"
     /\ last.id = last.prev.id) =>
        /\ last.out = "ok"
        /\ last.got.name = last.prev.kwargs.name
        /\ last.got.point = (IF Has(last.prev.kwargs, "point") THEN last.prev.kwargs.point
                             ELSE DefaultPoint)
        /\ last.got.created_at = last.got.updated_at

\* C12: after a successful update(id, point=80) of an inserted row that has
\* reached the storage engine (a statement, or a committed instance update),
\* get(id) shows point 80 and an updated_at strictly greater than
\* created_at, also when the insert and the update ran in the same
\* transaction.
C12_UpdatedAtRefreshed ==
    (/\ last.op = "get" /\ last.prev.op = "update_by_id" /\ last.prev.out = "ok"
     /\ last.id = last.prev.id /\ last.prev.kwargs = [point |-> 80]
     /\ (~last.prev.orm_way \/ last.prev.auto_commit)) =>
        /\ last.out = "ok"
        /\ last.got.point = 80
        /\ last.got.updated_at > last.got.created_at

\* C13: no update or upsert call, with any field values, changes the
\* created_at of a persisted row.
C13_CreatedAtNeverMutated ==
    (last.op \in {"update_by_id", "upsert", "commit"} /\ last.out = "ok") =>
        \A i \in DOMAIN last.pre \cap DOMAIN session.tx :
            session.tx[i].created_at = last.pre[i].created_at

-----------------------------------------------------------------------------
(* Failures.  One operation is called on a fresh session over a committed  *)
(* table, under a configuration (the dialect of config.db.dialect and the  *)
(* warn_mode argument), with a storage engine that may fail.  An exception *)
(* is its class and, for the errors SQLAlchemy wraps (DBAPIError), the     *)
(* class of the driver's error in its orig attribute.  refs is the set of  *)
(* ids a row of another table references through a foreign key.            *)

Exc(cls) == [cls |-> cls, orig |-> ""]
DBAPIError(cls, orig) == [cls |-> cls, orig |-> orig]
Ok == Exc("ok")
NoFault == Exc("none")

\* Storage failures that are no constraint violation
Faults == {DBAPIError("OperationalError", "ConnectionFailure"), Exc("TimeoutError")}

Dialects == {"postgresql", "mysql"}
WarnEnum == {"ERROR", "ALWAYS", "DEBUG", "IGNORE"}

\* if config.db.dialect == "postgresql": from psycopg.errors import (...)
psycopg_errors(dialect) ==
    IF dialect = "postgresql"
    THEN {"NotNullViolation", "UniqueViolation", "ForeignKeyViolation", "CheckViolation"}
    ELSE {}

\* The exception session.execute or the flush raises for an engine error
Raised(err) ==
    CASE err = "NotNullViolation" -> DBAPIError("IntegrityError", "NotNullViolation")
      [] err = "UniqueViolation(id)" -> DBAPIError("IntegrityError", "UniqueViolation(id)")
      [] err = "ForeignKeyViolation" -> DBAPIError("IntegrityError", "ForeignKeyViolation")
      [] OTHER -> Exc(err)

\* What the storage engine answers to the INSERT of kw
EngineInsert(t, kw, fault) ==
    IF fault # NoFault THEN [err |-> fault, tx |-> t, rowcount |-> 0]
    ELSE Then(ExecInsert(t, kw), LAMBDA r :
             [err |-> IF r.err = "none" THEN NoFault ELSE Raised(r.err), tx |-> r.tx,
              rowcount |-> r.rowcount])

\* What the storage engine answers to the DELETE of the rows D
EngineDelete(t, refs, D, fault) ==
    IF fault # NoFault THEN [err |-> fault, tx |-> t, rowcount |-> 0]
    ELSE IF D \cap DOMAIN t \cap refs # {}
    THEN [err |-> Raised("ForeignKeyViolation"), tx |-> t, rowcount |-> 0]
    ELSE [err |-> NoFault, tx |-> Remove(t, D), rowcount |-> Cardinality(D \cap DOMAIN t)]

\* The end of one call: what it raised (Ok if it returned), the committed
\* table, the table as the open transaction sees it, the objects marked for
\* deletion and not flushed, and whether a statement reached the engine.
Outcome(out, db, tx, deleted, sent) ==
    [out |-> out, db |-> db, tx |-> tx, deleted |-> deleted, sent |-> sent]

\* except Exception as err of async_insert and async_bulk_insert
except_create(dialect, err) ==
    IF err.cls # "IntegrityError" THEN err
    ELSE IF psycopg_errors(dialect) = {} THEN Exc("NameError")
    ELSE CASE err.orig = "NotNullViolation" -> Exc("NullConstraintError")
           [] err.orig = "UniqueViolation(id)" -> Exc("PrimaryKeyError")
           [] err.orig = "UniqueViolation" -> Exc("UniqueKeyError")
           [] err.orig = "ForeignKeyViolation" -> Exc("ForeignKeyError")
           [] err.orig = "CheckViolation" -> Exc("CheckConstraintError")
           [] OTHER -> err

\* except Exception as err of the delete operations
except_delete(dialect, err) ==
    IF err.cls = "NoResultFound" THEN err
    ELSE IF err.orig = "" THEN err
    ELSE IF "ForeignKeyViolation" \notin psycopg_errors(dialect) THEN Exc("NameError")
    ELSE IF err.orig = "ForeignKeyViolation" THEN Exc("ForeignKeyError")
    ELSE err

AsyncCreateMixin_async_insert(dialect, t, orm_way, auto_commit, fault, kwargs) ==
    IF DOMAIN kwargs = {} THEN Outcome(Exc("EmptyValueError"), t, t, {}, FALSE)
    ELSE IF orm_way /\ ~auto_commit THEN Outcome(Ok, t, t, {}, FALSE)
    ELSE Then(EngineInsert(t, IF orm_way THEN BaseMixin_init(kwargs, "G1")
                              ELSE WithId(kwargs, "G1"), fault), LAMBDA e :
             IF e.err # NoFault THEN Outcome(except_create(dialect, e.err), t, t, {}, TRUE)
             ELSE Outcome(Ok, IF auto_commit THEN e.tx ELSE t, e.tx, {}, TRUE))

\* The try block of the statement-mode deletes: execute, commit, rowcount check
DeleteStatement(dialect, t, refs, D, auto_commit, fault, check) ==
    Then(EngineDelete(t, refs, D, fault), LAMBDA e :
        IF e.err # NoFault THEN Outcome(except_delete(dialect, e.err), t, t, {}, TRUE)
        ELSE Outcome(IF check /\ e.rowcount = 0
                     THEN except_delete(dialect, Exc("NoResultFound")) ELSE Ok,
                     IF auto_commit THEN e.tx ELSE t, e.tx, {}, TRUE))

\* session.delete(obj) for each object; the commit flushes the DELETEs
DeleteInstances(dialect, t, refs, D, auto_commit, fault) ==
    IF ~auto_commit THEN Outcome(Ok, t, t, D, FALSE)
    ELSE Then(EngineDelete(t, refs, D, fault), LAMBDA e :
             IF e.err # NoFault THEN Outcome(except_delete(dialect, e.err), t, t, {}, TRUE)
             ELSE Outcome(Ok, e.tx, e.tx, {}, TRUE))

AsyncDeleteMixin_async_delete(dialect, t, refs, id, auto_commit, fault) ==
    DeleteInstances(dialect, t, refs, {id}, auto_commit, fault)

AsyncDeleteMixin_async_delete_by_id(dialect, t, refs, id, orm_way, auto_commit, fault) ==
    IF ~orm_way THEN DeleteStatement(dialect, t, refs, {id}, auto_commit, fault, TRUE)
    ELSE IF fault # NoFault THEN Outcome(fault, t, t, {}, TRUE)
    ELSE IF id \notin DOMAIN t THEN Outcome(Exc("NoResultFound"), t, t, {}, TRUE)
    ELSE AsyncDeleteMixin_async_delete(dialect, t, refs, id, auto_commit, fault)

AsyncDeleteMixin_async_delete_by_ids(dialect, t, refs, ids, auto_commit, fault) ==
    IF ids = {} THEN Outcome(Exc("EmptyValueError"), t, t, {}, FALSE)
    ELSE DeleteStatement(dialect, t, refs, ids, auto_commit, fault, TRUE)

AsyncDeleteMixin_async_delete_objects(dialect, t, refs, orm_objects, auto_commit, fault) ==
    IF orm_objects = {} THEN Outcome(Exc("EmptyValueError"), t, t, {}, FALSE)
    ELSE DeleteInstances(dialect, t, refs, orm_objects, auto_commit, fault)

AsyncDeleteMixin_async_delete_by_where(dialect, t, refs, where, orm_way, auto_commit, allow_no_result, fault) ==
    IF orm_way
    THEN Then(_build_where(where), LAMBDA b :
             IF b.err # "none" THEN Outcome(Exc(b.err), t, t, {}, FALSE)
             ELSE IF fault # NoFault THEN Outcome(fault, t, t, {}, TRUE)
             ELSE IF RowsWhere(t, b.preds) # {}
             THEN AsyncDeleteMixin_async_delete_objects(dialect, t, refs,
                                                        RowsWhere(t, b.preds), auto_commit, fault)
             ELSE Outcome(IF allow_no_result THEN Ok ELSE Exc("NoResultFound"), t, t, {}, TRUE))
    ELSE Then(_build_where_stmt(where), LAMBDA b :
             IF b.err # "none" THEN Outcome(except_delete(dialect, Exc(b.err)), t, t, {}, FALSE)
             ELSE DeleteStatement(dialect, t, refs, RowsWhere(t, b.preds), auto_commit, fault,
                                  ~allow_no_result))

AsyncDeleteMixin_async_delete_all(dialect, t, refs, auto_commit, fault) ==
    DeleteStatement(dialect, t, refs, DOMAIN t, auto_commit, fault, FALSE)

\* async_create_db: a failure is raised only when warn_mode is ERROR
async_create_db(warn_mode, fault) ==
    IF fault = NoFault THEN Ok
    ELSE IF warn_mode = "ERROR" THEN fault
    ELSE Ok

\* BaseMixin.__init__: the AttributeError of a keyword that is no attribute
\* is raised only when warn_mode is ERROR
BaseMixin_init_warn(warn_mode, kw) ==
    IF HasUnknown(kw) /\ warn_mode = "ERROR" THEN Exc("AttributeError") ELSE Ok

-----------------------------------------------------------------------------
(* One failing call *)

RefSets == {{}, {"X"}}
KwFail == {K1, [id |-> "Y", name |-> NullName], [id |-> "Y", name |-> NameB, bogus |-> 1]}

\* What one call was given and how it ended; by_warn is how it ends under
\* each warn_mode.
FailRun(op, dialect, orm_way, auto_commit, fault, t, refs, targets, res, by_warn) ==
    [op |-> op, dialect |-> dialect, orm_way |-> orm_way, auto_commit |-> auto_commit,
     fault |-> fault, table |-> t, refs |-> refs, targets |-> targets, res |-> res,
     by_warn |-> by_warn]

Whatever(res) == [w \in WarnEnum |-> res.out]

FailInsert ==
    \E d \in Dialects, t \in ModeTables, kw \in KwFail, o, a \in BOOLEAN,
       f \in Faults \cup {NoFault} :
        /\ runs = Idle
        /\ runs' = Then(AsyncCreateMixin_async_insert(d, t, o, a, f, kw), LAMBDA res :
                       FailRun("insert", d, o, a, f, t, {}, {kw.id}, res, Whatever(res)))
        /\ UNCHANGED <<session, last, steps, pager, query>>

FailDelete ==
    \E d \in Dialects, t \in ModeTables, refs \in RefSets, a \in BOOLEAN,
       f \in Faults \cup {NoFault} :
        \E i \in DOMAIN t :
            /\ runs = Idle
            /\ runs' = Then(AsyncDeleteMixin_async_delete(d, t, refs, i, a, f), LAMBDA res :
                           FailRun("delete", d, TRUE, a, f, t, refs, {i}, res, Whatever(res)))
            /\ UNCHANGED <<session, last, steps, pager, query>>

FailDeleteById ==
    \E d \in Dialects, t \in ModeTables, refs \in RefSets, i \in Ids, o, a \in BOOLEAN,
       f \in Faults \cup {NoFault} :
        /\ runs = Idle
        /\ runs' = Then(AsyncDeleteMixin_async_delete_by_id(d, t, refs, i, o, a, f), LAMBDA res :
                       FailRun("delete_by_id", d, o, a, f, t, refs, {i}, res, Whatever(res)))
        /\ UNCHANGED <<session, last, steps, pager, query>>

FailDeleteByIds ==
    \E d \in Dialects, t \in ModeTables, refs \in RefSets, D \in IdSets \cup {{}},
       a \in BOOLEAN, f \in Faults \cup {NoFault} :
        /\ runs = Idle
        /\ runs' = Then(AsyncDeleteMixin_async_delete_by_ids(d, t, refs, D, a, f), LAMBDA res :
                       FailRun("delete_by_ids", d, FALSE, a, f, t, refs, D, res, Whatever(res)))
        /\ UNCHANGED <<session, last, steps, pager, query>>

FailDeleteObjects ==
    \E d \in Dialects, t \in ModeTables, refs \in RefSets, a \in BOOLEAN,
       f \in Faults \cup {NoFault} :
        \E D \in SUBSET DOMAIN t :
            /\ runs = Idle
            /\ runs' = Then(AsyncDeleteMixin_async_delete_objects(d, t, refs, D, a, f),
                           LAMBDA res :
                           FailRun("delete_objects", d, TRUE, a, f, t, refs, D, res,
                                   Whatever(res)))
            /\ UNCHANGED <<session, last, steps, pager, query>>

FailDeleteByWhere ==
    \E d \in Dialects, t \in ModeTables, refs \in RefSets, w \in ModeWheres,
       o, a, n \in BOOLEAN, f \in Faults \cup {NoFault} :
        /\ runs = Idle
        /\ runs' = Then(AsyncDeleteMixin_async_delete_by_where(d, t, refs, w, o, a, n, f),
                       LAMBDA res :
                       FailRun("delete_by_where", d, o, a, f, t, refs,
                               RowsWhere(t, _build_where(w).preds), res, Whatever(res)))
        /\ UNCHANGED <<session, last, steps, pager, query>>

FailDeleteAll ==
    \E d \in Dialects, t \in ModeTables, refs \in RefSets, a \in BOOLEAN,
       f \in Faults \cup {NoFault} :
        /\ runs = Idle
        /\ runs' = Then(AsyncDeleteMixin_async_delete_all(d, t, refs, a, f), LAMBDA res :
                       FailRun("delete_all", d, FALSE, a, f, t, refs, DOMAIN t, res,
                               Whatever(res)))
        /\ UNCHANGED <<session, last, steps, pager, query>>

CreateDb ==
    \E f \in Faults \cup {NoFault}, w \in WarnEnum :
        /\ runs = Idle
        /\ runs' = FailRun("create_db", "postgresql", FALSE, FALSE, f, EmptyTable, {}, {},
                           Outcome(async_create_db(w, f), EmptyTable, EmptyTable, {}, TRUE),
                           [x \in WarnEnum |-> async_create_db(x, f)])
        /\ UNCHANGED <<session, last, steps, pager, query>>

Construct ==
    \E kw \in KwFail, w \in WarnEnum :
        /\ runs = Idle
        /\ runs' = FailRun("__init__", "postgresql", TRUE, FALSE, NoFault, EmptyTable, {}, {},
                           Outcome(BaseMixin_init_warn(w, kw), EmptyTable, EmptyTable, {}, FALSE),
                           [x \in WarnEnum |-> BaseMixin_init_warn(x, kw)])
        /\ UNCHANGED <<session, last, steps, pager, query>>

InitFail ==
    /\ session = NewSession(EmptyTable)
    /\ last = NoCall
    /\ steps = 0
    /\ runs = Idle
    /\ pager = Idle
    /\ query = Idle

NextFail ==
    \/ FailInsert \/ FailDelete \/ FailDeleteById \/ FailDeleteByIds \/ FailDeleteObjects
    \/ FailDeleteByWhere \/ FailDeleteAll \/ CreateDb \/ Construct

SpecFail == InitFail /\ [][NextFail]_vars

-----------------------------------------------------------------------------
(* Properties of the failures *)

DeleteOps == {"delete", "delete_by_id", "delete_by_ids", "delete_objects", "delete_by_where",
              "delete_all"}
MixinOps == DeleteOps \cup {"insert"}

\* C15: a delete aimed at a row that a foreign key still references raises
\* ForeignKeyError to its caller, in statement mode and in instance mode,
\* and the referenced row remains in the table (postgresql dialect).
C15_ReferencedRowIsNotDeleted ==
    (/\ runs.op \in DeleteOps /\ runs.dialect = "postgresql" /\ runs.fault = NoFault
     /\ runs.targets \cap DOMAIN runs.table \cap runs.refs # {}) =>
        /\ runs.res.out = Exc("ForeignKeyError")
        /\ runs.targets \cap DOMAIN runs.table \subseteq DOMAIN runs.res.db
        /\ runs.targets \cap DOMAIN runs.table \subseteq DOMAIN runs.res.tx

\* C16: a storage failure that is no constraint violation reaches the caller
\* as the error the storage engine raised, for every operation and dialect.
C16_OtherFailuresPropagateUnmodified ==
    (runs.op \in MixinOps /\ runs.fault \in Faults /\ runs.res.sent) =>
        runs.res.out = runs.fault

\* C17: whether an operation raises, and which error, is the same under
\* every warn_mode.
C17_WarnModeOnlyLogs ==
    runs.op # "idle" =>
        \A w1, w2 \in WarnEnum : runs.by_warn[w1] = runs.by_warn[w2]

-----------------------------------------------------------------------------
(* Empty inputs: each operation that takes fields, rows or ids, called     *)
(* once on a session, with inputs that may be empty.                       *)

\* insert(cls) executed with the rows of raw_data, one statement: a row that
\* fails makes the whole statement fail.
RECURSIVE ExecBulkInsert(_, _, _)
ExecBulkInsert(t0, t, rows) ==
    IF rows = <<>> THEN StmtOk(t, Cardinality(DOMAIN t) - Cardinality(DOMAIN t0))
    ELSE Then(ExecInsert(t, Head(rows)), LAMBDA x :
             IF x.err # "none" THEN StmtErr(t0, x.err)
             ELSE ExecBulkInsert(t0, x.tx, Tail(rows)))

\* for _data in raw_data: if "id" not in _data: _data["id"] = cls.gen_unique_id()
GenIds(raw_data) ==
    [n \in DOMAIN raw_data |-> WithId(raw_data[n], "G" \o ToString(n))]

async_bulk_insert(s, returning, auto_commit, raw_data) ==
    IF raw_data = <<>> THEN Res(s, "EmptyValueError", <<>>)
    ELSE Then(SessionExecute(s, ExecBulkInsert(s.tx, s.tx, GenIds(raw_data))), LAMBDA e :
             IF e.err # "none"
             THEN OnError(e.s, auto_commit, TranslateInsert(e.err), <<"execute">>)
             ELSE CommitCreate(e.s, auto_commit, <<"execute">>))

\* AsyncReadMixin.async_get_by_ids of core/models/mixins
async_get_by_ids(s, ids) ==
    IF ids = {} THEN Res(s, "EmptyValueError", <<>>)
    ELSE IF s.inactive THEN Res(s, "PendingRollbackError", <<"execute">>)
    ELSE IF ids \cap DOMAIN s.tx = {} THEN Res(s, "NoResultFound", <<"execute">>)
    ELSE Res(s, "ok", <<"execute">>)

\* AsyncReadMixin.async_get_by_ids of databases/rdb/mixins: the statement is
\* executed whatever ids holds, and the rows found are returned.
AsyncReadMixin_async_get_by_ids(s, ids) ==
    IF s.inactive THEN Res(s, "PendingRollbackError", <<"execute">>)
    ELSE Res(s, "ok", <<"execute">>)

NoKw == [k \in {} |-> 0]
KwMaybe == {NoKw, [name |-> NameB, point |-> 50]}
IdsMaybe == {{}, {"X"}, {"X", "Y"}}
RowsMaybe == {<<>>, <<K1>>, <<[name |-> NameB], [id |-> "Y", name |-> NameA]>>}
WheresMaybe == Wheres

\* Sessions a call may find: clean, or holding writes that are not committed
EmptySessions ==
    {NewSession(t) : t \in TxTables}
    \cup {SetAttrs(NewSession(t), "X", [point |-> 10]) : t \in TxTables \ {EmptyTable}}
    \cup {[NewSession(t) EXCEPT !.tx = Put(t, "Y", [name |-> NameB, point |-> 10])] :
              t \in TxTables}

EmptyRun(op, empty, r) ==
    [op |-> op, empty |-> empty, out |-> r.out, calls |-> r.calls, after |-> r.s]

EmptyInsert ==
    /\ runs = Idle
    /\ \E kw \in KwMaybe, o, a \in BOOLEAN :
          runs' = EmptyRun("insert", kw = NoKw,
                           async_insert(session, gen_unique_id(session), o, TRUE, a, kw))
    /\ UNCHANGED <<session, last, steps, pager, query>>

EmptyUpsert ==
    /\ runs = Idle
    /\ \E kw \in KwMaybe, o, a \in BOOLEAN :
          runs' = EmptyRun("upsert", kw = NoKw,
                           async_upsert(session, gen_unique_id(session), o, TRUE, a, kw))
    /\ UNCHANGED <<session, last, steps, pager, query>>

EmptyBulkInsert ==
    /\ runs = Idle
    /\ \E rows \in RowsMaybe, r, a \in BOOLEAN :
          runs' = EmptyRun("bulk_insert", rows = <<>>, async_bulk_insert(session, r, a, rows))
    /\ UNCHANGED <<session, last, steps, pager, query>>

EmptyUpdateById ==
    /\ runs = Idle
    /\ \E i \in Ids, kw \in KwMaybe, o, a, r \in BOOLEAN :
          runs' = EmptyRun("update_by_id", kw = NoKw,
                           async_update_by_id(session, i, o, r, a, kw))
    /\ UNCHANGED <<session, last, steps, pager, query>>

EmptyUpdateByIds ==
    /\ runs = Idle
    /\ \E D \in IdsMaybe, kw \in KwMaybe, a, r \in BOOLEAN :
          runs' = EmptyRun("update_by_ids", D = {} \/ kw = NoKw,
                           async_update_by_ids(session, D, r, a, kw))
    /\ UNCHANGED <<session, last, steps, pager, query>>

EmptySyncUpdateByIds ==
    /\ runs = Idle
    /\ \E D \in IdsMaybe, kw \in KwMaybe, a, r \in BOOLEAN :
          runs' = EmptyRun("sync_update_by_ids", D = {} \/ kw = NoKw,
                           update_by_ids(session, D, a, r, kw))
    /\ UNCHANGED <<session, last, steps, pager, query>>

EmptyUpdateByWhere ==
    /\ runs = Idle
    /\ \E w \in WheresMaybe, kw \in KwMaybe, o, a, n \in BOOLEAN :
          runs' = EmptyRun("update_by_where", kw = NoKw,
                           async_update_by_where(session, w, o, FALSE, a, n, kw))
    /\ UNCHANGED <<session, last, steps, pager, query>>

EmptyGetByIds ==
    /\ runs = Idle
    /\ \E D \in IdsMaybe :
          runs' = EmptyRun("get_by_ids", D = {}, async_get_by_ids(session, D))
    /\ UNCHANGED <<session, last, steps, pager, query>>

EmptyRdbGetByIds ==
    /\ runs = Idle
    /\ \E D \in IdsMaybe :
          runs' = EmptyRun("rdb_get_by_ids", D = {},
                           AsyncReadMixin_async_get_by_ids(session, D))
    /\ UNCHANGED <<session, last, steps, pager, query>>

EmptyDeleteByIds ==
    /\ runs = Idle
    /\ \E D \in IdsMaybe, a \in BOOLEAN :
          runs' = EmptyRun("delete_by_ids", D = {}, async_delete_by_ids(session, D, a))
    /\ UNCHANGED <<session, last, steps, pager, query>>

InitEmpty ==
    /\ session \in EmptySessions
    /\ last = NoCall
    /\ steps = 0
    /\ runs = Idle
    /\ pager = Idle
    /\ query = Idle

NextEmpty ==
    \/ EmptyInsert \/ EmptyUpsert \/ EmptyBulkInsert
    \/ EmptyUpdateById \/ EmptyUpdateByIds \/ EmptySyncUpdateByIds \/ EmptyUpdateByWhere
    \/ EmptyGetByIds \/ EmptyRdbGetByIds \/ EmptyDeleteByIds

SpecEmpty == InitEmpty /\ [][NextEmpty]_vars

\* The errors an operation raises for an input that holds nothing
EmptyInput == {"EmptyValueError", "ValueError"}

\* C19: insert, upsert, bulk_insert, update_by_id, update_by_ids,
\* update_by_where, get_by_ids and delete_by_ids, given no fields (no rows,
\* no ids), raise the empty-input error without a statement, a commit or a
\* rollback, and leave the session and storage as they were.
C19_EmptyInputRaisesBeforeAnyCall ==
    (runs.op # "idle" /\ runs.empty) =>
        /\ runs.out \in EmptyInput
        /\ runs.calls = <<>>
        /\ runs.after = session

-----------------------------------------------------------------------------
(* Reads with allow_no_result (core/models/mixins/async_/read.py): each    *)
(* read called once on a session; query records the call, what the         *)
(* statement selected and what the caller got.                             *)

Found(rows) == [out |-> "ok", rows |-> rows]
Raises(err) == [out |-> err, rows |-> <<>>]

\* if (not allow_no_result) and (not _orm_objects): raise NoResultFound
\* with the test on allow_no_result left out
RaiseIfEmptyAlways(rows, allow_no_result) ==
    IF rows = <<>> THEN Raises("NoResultFound") ELSE Found(rows)

\* if (not allow_no_result) and (not _orm_objects): raise NoResultFound
RaiseIfEmpty(rows, allow_no_result) ==
    IF ~allow_no_result /\ rows = <<>> THEN Raises("NoResultFound") ELSE Found(rows)

\* What session.execute(_stmt).scalars().all() may hand back: an error, or
\* one of the orders the engine may return the selected rows in
Selected(s, stmt) ==
    IF stmt.err # "none" THEN {Raises(stmt.err)}
    ELSE IF s.inactive THEN {Raises("PendingRollbackError")}
    ELSE {Found(page) : page \in ExecSelect(s.tx, stmt)}

\* AsyncReadMixin.async_select_by_where: every result the call may have
AsyncReadMixin_async_select_by_where(s, where, offset, limit, is_desc, allow_no_result) ==
    {IF e.out # "ok" THEN e ELSE RaiseIfEmpty(e.rows, allow_no_result) :
        e \in Selected(s, _build_select(where, offset, limit, <<>>, is_desc, FALSE))}

\* AsyncReadMixin.async_select: select_by_where with where=[]
AsyncReadMixin_async_select(s, offset, limit, is_desc, allow_no_result) ==
    AsyncReadMixin_async_select_by_where(s, <<>>, offset, limit, is_desc, allow_no_result)

\* AsyncReadMixin.async_get_by_where: select_by_where with limit=1, then the
\* first object, or None (no row) when the list is empty
AsyncReadMixin_async_get_by_where(s, where, allow_no_result) ==
    {IF r.out # "ok" THEN r ELSE Found(SubSeq(r.rows, 1, IF r.rows = <<>> THEN 0 ELSE 1)) :
        r \in AsyncReadMixin_async_select_by_where(s, where, 0, 1, TRUE, allow_no_result)}

\* AsyncReadMixin.async_get: session.get(cls, id), then the not-found test
AsyncReadMixin_async_get(s, id, allow_no_result) ==
    IF s.inactive THEN Raises("PendingRollbackError")
    ELSE RaiseIfEmpty(IF SessionGet(s, id) THEN <<id>> ELSE <<>>, allow_no_result)

ReadTables == PageTables(MaxRows)
ReadIds == {PageId(n) : n \in 1..(MaxRows + 1)}
ReadWheres ==
    {<<[column |-> "point", op |-> "ge", value |-> 50]>>,
     <<[column |-> "point", op |-> "lt", value |-> 10]>>,
     <<[column |-> "name", value |-> NameA], [column |-> "point", op |-> "eq", value |-> 10]>>}

\* The sessions a read may find: clean, or with an object added and not flushed
ReadSessions ==
    {NewSession(t) : t \in ReadTables}
    \cup {[NewSession(t) EXCEPT !.new = <<[id |-> PageId(MaxRows + 1), name |-> NameA]>>] :
              t \in ReadTables}

NoRead == [op |-> "init", allow_no_result |-> TRUE, selected |-> {}, out |-> "ok", rows |-> <<>>]

\* selected: the rows the statement of the call hands back, whatever their order
Read(op, allow_no_result, selected, r) ==
    [op |-> op, allow_no_result |-> allow_no_result, selected |-> selected,
     out |-> r.out, rows |-> r.rows]

Get ==
    /\ query = NoRead
    /\ \E i \in ReadIds, a \in BOOLEAN :
          query' = Read("get", a, {i} \cap DOMAIN session.tx,
                        AsyncReadMixin_async_get(session, i, a))
    /\ UNCHANGED <<session, last, steps, runs, pager>>

GetByWhere ==
    /\ query = NoRead
    /\ \E w \in ReadWheres, a \in BOOLEAN :
          \E r \in AsyncReadMixin_async_get_by_where(session, w, a) :
              query' = Read("get_by_where", a, RowsWhere(session.tx, _build_where(w).preds), r)
    /\ UNCHANGED <<session, last, steps, runs, pager>>

Select ==
    /\ query = NoRead
    /\ \E o \in 0..MaxRows, k \in 1..2, d, a \in BOOLEAN :
          \E r \in AsyncReadMixin_async_select(session, o, k, d, a) :
              \E page \in ExecSelect(session.tx, _build_select(<<>>, o, k, <<>>, d, FALSE)) :
                  query' = Read("select", a, SeqRange(page), r)
    /\ UNCHANGED <<session, last, steps, runs, pager>>

ReadSelectByWhere ==
    /\ query = NoRead
    /\ \E w \in ReadWheres, o \in 0..MaxRows, k \in 1..2, d, a \in BOOLEAN :
          \E r \in AsyncReadMixin_async_select_by_where(session, w, o, k, d, a) :
              \E page \in ExecSelect(session.tx, _build_select(w, o, k, <<>>, d, FALSE)) :
                  query' = Read("select_by_where", a, SeqRange(page), r)
    /\ UNCHANGED <<session, last, steps, runs, pager>>

InitRead ==
    /\ session \in ReadSessions
    /\ query = NoRead
    /\ last = NoCall
    /\ steps = 0
    /\ runs = Idle
    /\ pager = Idle

NextRead == Get \/ GetByWhere \/ Select \/ ReadSelectByWhere

SpecRead == InitRead /\ [][NextRead]_vars

-----------------------------------------------------------------------------
(* Bulk operations in statement mode: each called once on a session that   *)
(* may hold earlier writes; runs records the call, its target rows, the    *)
(* table those rows would make if all were written, and the session after. *)

KwBulk == {[point |-> 80], [name |-> NullName], [id |-> "Y", point |-> 80]}
RowsBulk ==
    {<<[id |-> "Y", name |-> NameB]>>,
     <<[id |-> "Y", name |-> NameB], K1>>,
     <<[id |-> "Y", name |-> NameB], [id |-> "Z", name |-> NullName]>>,
     <<[name |-> NameA], [name |-> NameB, point |-> 50]>>}

\* Sessions a bulk call may find: clean, with an uncommitted row, or with an
\* added object whose INSERT the next flush will send and the engine reject
BulkSessions ==
    {NewSession(t) : t \in TxTables}
    \cup {[NewSession(t) EXCEPT !.tx = Put(t, "Y", [name |-> NameB, point |-> 10])] :
              t \in TxTables}
    \cup {[NewSession(t) EXCEPT !.new = <<[id |-> "P", point |-> 10]>>] : t \in TxTables}

\* Every target row written as the statement asks
AllUpdated(t, D, kw) == [i \in DOMAIN t |-> IF i \in D THEN SetCols(t[i], kw) ELSE t[i]]
RECURSIVE AllInserted(_, _)
AllInserted(t, rows) ==
    IF rows = <<>> THEN t
    ELSE AllInserted(Put(t, Head(rows).id,
                         [name |-> Head(rows).name,
                          point |-> IF Has(Head(rows), "point") THEN Head(rows).point
                                    ELSE DefaultPoint]),
                     Tail(rows))

BulkRun(op, auto_commit, targets, all, r) ==
    [op |-> op, auto_commit |-> auto_commit, targets |-> targets, all |-> all,
     out |-> r.out, calls |-> r.calls, after |-> r.s]

BulkInsert ==
    /\ runs = Idle
    /\ \E rows \in RowsBulk, r, a \in BOOLEAN :
          runs' = BulkRun("bulk_insert", a, {GenIds(rows)[n].id : n \in DOMAIN rows},
                          AllInserted(session.tx, GenIds(rows)),
                          async_bulk_insert(session, r, a, rows))
    /\ UNCHANGED <<session, last, steps, pager, query>>

BulkUpdateByIds ==
    /\ runs = Idle
    /\ \E D \in IdSets, kw \in KwBulk, a, r \in BOOLEAN :
          runs' = BulkRun("update_by_ids", a, D \cap DOMAIN session.tx,
                          AllUpdated(session.tx, D, Without(kw, "id")),
                          async_update_by_ids(session, D, r, a, kw))
    /\ UNCHANGED <<session, last, steps, pager, query>>

BulkUpdateByWhere ==
    /\ runs = Idle
    /\ \E w \in Wheres, kw \in KwBulk, a, n, r \in BOOLEAN :
          runs' = BulkRun("update_by_where", a, RowsWhere(session.tx, _build_where(w).preds),
                          AllUpdated(session.tx, RowsWhere(session.tx, _build_where(w).preds),
                                     Without(kw, "id")),
                          async_update_by_where(session, w, FALSE, r, a, n, kw))
    /\ UNCHANGED <<session, last, steps, pager, query>>

BulkUpdateAll ==
    /\ runs = Idle
    /\ \E kw \in KwBulk, a \in BOOLEAN :
          runs' = BulkRun("update_all", a, DOMAIN session.tx,
                          AllUpdated(session.tx, DOMAIN session.tx, Without(kw, "id")),
                          async_update_all(session, a, kw))
    /\ UNCHANGED <<session, last, steps, pager, query>>

BulkDeleteByIds ==
    /\ runs = Idle
    /\ \E D \in IdSets, a \in BOOLEAN :
          runs' = BulkRun("delete_by_ids", a, D \cap DOMAIN session.tx, Remove(session.tx, D),
                          async_delete_by_ids(session, D, a))
    /\ UNCHANGED <<session, last, steps, pager, query>>

BulkDeleteByWhere ==
    /\ runs = Idle
    /\ \E w \in Wheres, a, n \in BOOLEAN :
          runs' = BulkRun("delete_by_where", a, RowsWhere(session.tx, _build_where(w).preds),
                          Remove(session.tx, RowsWhere(session.tx, _build_where(w).preds)),
                          async_delete_by_where(session, w, FALSE, a, n))
    /\ UNCHANGED <<session, last, steps, pager, query>>

BulkDeleteAll ==
    /\ runs = Idle
    /\ \E a \in BOOLEAN :
          runs' = BulkRun("delete_all", a, DOMAIN session.tx, EmptyTable,
                          async_delete_all(session, a))
    /\ UNCHANGED <<session, last, steps, pager, query>>

InitBulk ==
    /\ session \in BulkSessions
    /\ last = NoCall
    /\ steps = 0
    /\ runs = Idle
    /\ pager = Idle
    /\ query = Idle

NextBulk ==
    \/ BulkInsert \/ BulkUpdateByIds \/ BulkUpdateByWhere \/ BulkUpdateAll
    \/ BulkDeleteByIds \/ BulkDeleteByWhere \/ BulkDeleteAll

SpecBulk == InitBulk /\ [][NextBulk]_vars

\* The table with the rows of keys only
Only(t, keys) == [i \in DOMAIN t \cap keys |-> t[i]]

-----------------------------------------------------------------------------
(* The two calling conventions: the blocking and the asynchronous          *)
(* implementation of one operation, each called on the same session with   *)
(* the same arguments.                                                     *)

\* logger.error(f"... '{kwargs['id']}' ID ...") of the sync except branches:
\* the lookup itself raises when the caller gave no id
LogWithId(r, kwargs) ==
    IF r.out # "ok" /\ ~Has(kwargs, "id") THEN [r EXCEPT !.out = "KeyError"] ELSE r

\* UpdateMixin.update of databases/rdb/mixins/sync/update.py
UpdateMixin_update(s, id, auto_commit, kwargs) ==
    CommitSync(SetAttrs(s, id, Without(kwargs, "id")), auto_commit, <<>>)

\* CreateMixin.insert of databases/rdb/mixins/sync/create.py
CreateMixin_insert(s, g, orm_way, auto_commit, kwargs) ==
    IF DOMAIN kwargs = {} THEN Res(s, "ValueError", <<>>)
    ELSE IF orm_way
    THEN LogWithId(CommitSync([s EXCEPT !.new = Append(s.new, BaseMixin_init(kwargs, g))],
                              auto_commit, <<"add">>), kwargs)
    ELSE Then(SessionExecute(s, ExecInsert(s.tx, WithId(kwargs, g))), LAMBDA e :
             IF e.err # "none" THEN OnError(e.s, auto_commit, e.err, <<"execute">>)
             ELSE CommitSync(e.s, auto_commit, <<"execute">>))

\* CreateMixin.upsert of databases/rdb/mixins/sync/create.py
CreateMixin_upsert(s, g, orm_way, auto_commit, kwargs) ==
    IF DOMAIN kwargs = {} THEN Res(s, "ValueError", <<>>)
    ELSE IF orm_way
    THEN IF ~Has(kwargs, "id")
         THEN LogWithId(CreateMixin_insert(s, g, TRUE, auto_commit, kwargs), kwargs)
         ELSE LET got == async_get(s, kwargs.id, TRUE) IN
              IF got = "PendingRollbackError" THEN Res(s, got, <<"get">>)
              ELSE IF got = "found"
              THEN After(<<"get">>, UpdateMixin_update(s, kwargs.id, auto_commit, kwargs))
              ELSE After(<<"get">>, CreateMixin_insert(s, g, TRUE, auto_commit, kwargs))
    ELSE Then(SessionExecute(s, ExecUpsert(s.tx, WithId(kwargs, g))), LAMBDA e :
             IF e.err # "none" THEN OnError(e.s, auto_commit, e.err, <<"execute">>)
             ELSE CommitSync(e.s, auto_commit, <<"execute">>))

\* DeleteMixin.delete_by_id of core/models/mixins/sync/delete.py: the body of
\* async_delete_by_id without the awaits
DeleteMixin_delete_by_id(s, id, orm_way, auto_commit) ==
    IF orm_way
    THEN LET got == async_get(s, id, FALSE) IN
         IF got # "found" THEN Res(s, got, <<"get">>)
         ELSE After(<<"get">>, DeleteMarked(s, {id}, auto_commit))
    ELSE RunStatement(s, ExecDelete(s.tx, {id}), auto_commit, FALSE, TRUE)

KwBoth == {K1, [name |-> NameB], [id |-> "Y", name |-> NullName], [id |-> "X", point |-> 10]}

Both(op, orm_way, auto_commit, sync, async) ==
    [op |-> op, orm_way |-> orm_way, auto_commit |-> auto_commit, sync |-> sync,
     async |-> async]

UpsertBoth ==
    /\ runs = Idle
    /\ \E kw \in KwBoth, o, a \in BOOLEAN :
          runs' = Both("upsert", o, a,
                       CreateMixin_upsert(session, gen_unique_id(session), o, a, kw),
                       async_upsert(session, gen_unique_id(session), o, TRUE, a, kw))
    /\ UNCHANGED <<session, last, steps, pager, query>>

DeleteByIdBoth ==
    /\ runs = Idle
    /\ \E i \in Ids, o, a \in BOOLEAN :
          runs' = Both("delete_by_id", o, a,
                       DeleteMixin_delete_by_id(session, i, o, a),
                       async_delete_by_id(session, i, o, a))
    /\ UNCHANGED <<session, last, steps, pager, query>>

UpdateByIdsBoth ==
    /\ runs = Idle
    /\ \E D \in IdSets, kw \in KwUpdate, a, r \in BOOLEAN :
          runs' = Both("update_by_ids", FALSE, a,
                       update_by_ids(session, D, a, r, kw),
                       async_update_by_ids(session, D, r, a, kw))
    /\ UNCHANGED <<session, last, steps, pager, query>>

InitBoth ==
    /\ session \in BulkSessions
    /\ last = NoCall
    /\ steps = 0
    /\ runs = Idle
    /\ pager = Idle
    /\ query = Idle

NextBoth == UpsertBoth \/ DeleteByIdBoth \/ UpdateByIdsBoth

SpecBoth == InitBoth /\ [][NextBoth]_vars

\* C23: the blocking and the asynchronous implementation of an operation,
\* given the same session, flags and arguments, make the same session calls
\* in the same order, leave the same session and return or raise the same.
C23_SyncAndAsyncAgree ==
    runs.op # "idle" =>
        /\ runs.sync.calls = runs.async.calls
        /\ runs.sync.s = runs.async.s
        /\ runs.sync.out = runs.async.out

\* The same for the calls and the session only, whatever is raised
SyncAndAsyncSameCalls ==
    runs.op # "idle" =>
        /\ runs.sync.calls = runs.async.calls
        /\ runs.sync.s = runs.async.s

\* The same for delete_by_id only
DeleteByIdSyncAndAsyncAgree ==
    runs.op = "delete_by_id" => runs.sync = runs.async

-----------------------------------------------------------------------------
(* Identifiers: generated by the application (BaseMixin.gen_unique_id) or  *)
(* by the tr__generate_pk trigger for a row inserted with a NULL id.       *)
(* Strings are sequences of characters.                                    *)

MaxIds == 2

UpperToLower ==
    ("T" :> "t") @@ ("S" :> "s") @@ ("O" :> "o") @@ ("R" :> "r") @@ ("M" :> "m")
LOWER(str) == [n \in DOMAIN str |-> IF str[n] \in DOMAIN UpperToLower
                                    THEN UpperToLower[str[n]] ELSE str[n]]

\* SUBSTRING(str FROM from FOR count)
SUBSTRING(str, from, count) ==
    SubSeq(str, from, IF from + count - 1 < Len(str) THEN from + count - 1 ELSE Len(str))

\* The entity types: the class name and its snake-case name without "_orm"
TaskORM == [name |-> <<"T", "a", "s", "k", "O", "R", "M">>,
            snake |-> <<"t", "a", "s", "k">>]
TableStatORM == [name |-> <<"T", "a", "b", "l", "e", "S", "t", "a", "t", "O", "R", "M">>,
                 snake |-> <<"t", "a", "b", "l", "e", "_", "s", "t", "a", "t">>]
EntityTypes == {TaskORM, TableStatORM}

\* Values of config.db.prefix: any string of at most 16 characters
DbPrefixes == {<<>>, <<"f", "t", "_">>, <<"a", "p", "i", "_">>}

\* BaseORM.__tablename__
tablename(cls, prefix) == prefix \o cls.snake

\* The prefix the spec gives an id of the type: the first three characters
\* of the type's name, case-normalized
TypePrefix(cls) == LOWER(SubSeq(cls.name, 1, 3))

\* BaseMixin.gen_unique_id: utils.gen_unique_id(prefix=cls.__name__[0:3])
BaseMixin_gen_unique_id(cls, ts, rnd) ==
    [prefix |-> LOWER(SubSeq(cls.name, 1, 3)), ts |-> ts, uuid |-> rnd]

\* fn_tr__generate_pk, fired BEFORE INSERT on a row whose id is NULL
fn_tr__generate_pk(TG_TABLE_NAME, ts, rnd) ==
    [prefix |-> LOWER(SUBSTRING(TG_TABLE_NAME, 5, 3)), ts |-> ts, uuid |-> rnd]

\* gen_random_uuid() and uuid4(): random, nothing shared between callers
RandomBits == 1..2

NoIds == [op |-> "ids", prefix |-> <<>>, now |-> 0, made |-> {}]

\* pager holds the configuration, the clock in seconds and the ids made so far
Generate ==
    /\ Cardinality(pager.made) < MaxIds
    /\ \E cls \in EntityTypes, rnd \in RandomBits :
          pager' = [pager EXCEPT !.made = @ \cup
                       {[cls |-> cls, by |-> "application",
                         id |-> BaseMixin_gen_unique_id(cls, pager.now, rnd)]}]
    /\ UNCHANGED <<session, last, steps, runs, query>>

InsertWithNullId ==
    /\ Cardinality(pager.made) < MaxIds
    /\ \E cls \in EntityTypes, rnd \in RandomBits :
          pager' = [pager EXCEPT !.made = @ \cup
                       {[cls |-> cls, by |-> "trigger",
                         id |-> fn_tr__generate_pk(tablename(cls, pager.prefix),
                                                   pager.now, rnd)]}]
    /\ UNCHANGED <<session, last, steps, runs, query>>

Second ==
    /\ pager.now < MaxIds
    /\ pager' = [pager EXCEPT !.now = @ + 1]
    /\ UNCHANGED <<session, last, steps, runs, query>>

InitIds ==
    /\ \E p \in DbPrefixes : pager = [NoIds EXCEPT !.prefix = p]
    /\ session = NewSession(EmptyTable)
    /\ last = NoCall
    /\ steps = 0
    /\ runs = Idle
    /\ query = Idle

NextIds == Generate \/ InsertWithNullId \/ Second

SpecIds == InitIds /\ [][NextIds]_vars

\* C24: every generated id of an entity type starts with the 3-character
\* prefix derived from the type's name.
C24_IdStartsWithTypePrefix ==
    \A m \in pager.made : m.id.prefix = TypePrefix(m.cls)

-----------------------------------------------------------------------------
(* Startup check of the database connection: async_check_db and check_db   *)
(* of databases/rdb/_check.py (SystemExit(2) when the attempts are used    *)
(* up) and async_check_db of the older databases/rdb/check.py              *)
(* (ConnectionError).  runs is the state of one call.                      *)

MaxTry == 3

CheckModules == {"_check.async_check_db", "_check.check_db", "check.async_check_db"}

\* if (config.db.max_try_connect - 1) <= _i, with the bound off by one
LastTryNever(max_try_connect, i) == max_try_connect <= i

\* if (config.db.max_try_connect - 1) <= _i
LastTry(max_try_connect, i) == (max_try_connect - 1) <= i

\* raise SystemExit(2) / raise ConnectionError(_message)
StopsWith(module) ==
    IF module = "check.async_check_db" THEN "ConnectionError" ELSE "SystemExit(2)"

\* for _i in range(config.db.max_try_connect): the next iteration, or the
\* statements after the loop
LoopHead(st) ==
    IF st.i < st.max_try_connect THEN [st EXCEPT !.pc = "try"]
    ELSE [st EXCEPT !.pc = "returned", !.success_logged = TRUE, !.result = IF st.is_done THEN "True" ELSE "False"]

\* One iteration up to the sleep: create the database when is_write_db (its
\* failure is ignored under WarnEnum.IGNORE), then try to connect
Iteration(st, creatable, connectable) ==
    LET st1 == [st EXCEPT !.attempts = Append(@, connectable),
                          !.created = @ + (IF st.is_write_db /\ creatable THEN 1 ELSE 0)]
    IN  IF connectable
        THEN [st1 EXCEPT !.is_done = TRUE, !.pc = "returned", !.success_logged = TRUE,
                         !.result = "True"]
        ELSE IF LastTry(st.max_try_connect, st.i)
        THEN [st1 EXCEPT !.pc = "raised", !.result = StopsWith(st.module)]
        ELSE [st1 EXCEPT !.pc = "sleep"]

CheckStart(module, max_try_connect, is_write_db) ==
    LoopHead([op |-> "check_db", module |-> module, max_try_connect |-> max_try_connect,
              is_write_db |-> is_write_db, i |-> 0, is_done |-> FALSE, attempts |-> <<>>,
              created |-> 0, sleeps |-> 0, success_logged |-> FALSE, result |-> "none",
              pc |-> "start"])

TryConnect ==
    /\ runs.pc = "try"
    /\ \E creatable, connectable \in BOOLEAN :
          runs' = Iteration(runs, creatable, connectable)
    /\ UNCHANGED <<session, last, steps, pager, query>>

\* await asyncio.sleep(config.db.retry_after) / time.sleep(...)
RetryAfter ==
    /\ runs.pc = "sleep"
    /\ runs' = LoopHead([runs EXCEPT !.sleeps = @ + 1, !.i = @ + 1])
    /\ UNCHANGED <<session, last, steps, pager, query>>

InitCheck ==
    /\ \E m \in CheckModules, n \in 1..MaxTry, w \in BOOLEAN : runs = CheckStart(m, n, w)
    /\ session = NewSession(EmptyTable)
    /\ last = NoCall
    /\ steps = 0
    /\ pager = Idle
    /\ query = Idle

NextCheck == TryConnect \/ RetryAfter

SpecCheck == InitCheck /\ [][NextCheck]_vars

Failed(attempts) == \A n \in DOMAIN attempts : ~attempts[n]

-----------------------------------------------------------------------------
(* Updates whose kwargs hold the id and nothing else: the id is deleted    *)
(* from kwargs after the emptiness test.                                   *)

KwOnlyId == {[id |-> "Y"], [id |-> "Y", point |-> 80], [point |-> 10], [name |-> NullName], NoKw}

UpdateRun(op, kwargs, r) ==
    [op |-> op, kwargs |-> kwargs, out |-> r.out, calls |-> r.calls, after |-> r.s]

\* update_by_id takes the id as a parameter of its own: its kwargs hold no id
OnlyIdUpdateById ==
    /\ runs = Idle
    /\ \E i \in Ids, kw \in {k \in KwOnlyId : ~Has(k, "id")}, o, a, r \in BOOLEAN :
          runs' = UpdateRun("update_by_id", kw, async_update_by_id(session, i, o, r, a, kw))
    /\ UNCHANGED <<session, last, steps, pager, query>>

OnlyIdUpdateByIds ==
    /\ runs = Idle
    /\ \E D \in IdSets, kw \in KwOnlyId, a, r \in BOOLEAN :
          runs' = UpdateRun("update_by_ids", kw, async_update_by_ids(session, D, r, a, kw))
    /\ UNCHANGED <<session, last, steps, pager, query>>

OnlyIdUpdateByWhere ==
    /\ runs = Idle
    /\ \E w \in Wheres, kw \in KwOnlyId, o, a, n, r \in BOOLEAN :
          runs' = UpdateRun("update_by_where", kw,
                            async_update_by_where(session, w, o, r, a, n, kw))
    /\ UNCHANGED <<session, last, steps, pager, query>>

InitOnlyId ==
    /\ session \in EmptySessions
    /\ last = NoCall
    /\ steps = 0
    /\ runs = Idle
    /\ pager = Idle
    /\ query = Idle

NextOnlyId == OnlyIdUpdateById \/ OnlyIdUpdateByIds \/ OnlyIdUpdateByWhere

SpecOnlyId == InitOnlyId /\ [][NextOnlyId]_vars

\* C26: an update called with id as the only field (update_by_ids and
\* update_by_where; update_by_id cannot be given one) raises the empty-input
\* error and makes no session call.
C26_OnlyIdIsEmptyInput ==
    (runs.op # "idle" /\ DOMAIN runs.kwargs = {"id"}) =>
        /\ runs.out = "EmptyValueError"
        /\ runs.calls = <<>>

(***************************************************************************)
(* Stat counts.  The table carries the row triggers tr__update_stat_count  *)
(* (AFTER INSERT OR DELETE, FOR EACH ROW) and the statement trigger        *)
(* tr__truncate_stat_count (AFTER TRUNCATE).  Transactions run at READ     *)
(* COMMITTED: a statement sees the latest committed rows and its own       *)
(* transaction's writes, a written row stays locked until the transaction  *)
(* ends, and TRUNCATE holds the table exclusively.  Here session is the    *)
(* committed database, runs the open transactions, last the last total     *)
(* reported by the unfiltered task list.                                   *)
(***************************************************************************)
MaxStatements == 5
Txs == {1, 2}
NoStat == [exists |-> FALSE]
NoTx == [open |-> FALSE, ins |-> {}, del |-> {}, trunc |-> FALSE, stat |-> NoStat, wrote |-> FALSE, pending |-> "none"]

\* the mutation of the row trigger: INSERT always writes a fresh stat row
fn_tr__insert_without_conflict(stat, TG_OP) ==
    IF TG_OP = "INSERT"
    THEN [exists |-> TRUE, insert_count |-> 1, delete_count |-> 0, row_count |-> 1]
    ELSE IF stat.exists
         THEN [stat EXCEPT !.delete_count = @ + 1, !.row_count = @ - 1]
         ELSE stat

\* INSERT ... ON CONFLICT (table_name) DO UPDATE, and the UPDATE on DELETE
fn_tr__update_stat_count(stat, TG_OP) ==
    IF TG_OP = "INSERT"
    THEN IF stat.exists
         THEN [stat EXCEPT !.insert_count = @ + 1, !.row_count = @ + 1]
         ELSE [exists |-> TRUE, insert_count |-> 1, delete_count |-> 0, row_count |-> 1]
    ELSE IF stat.exists
         THEN [stat EXCEPT !.delete_count = @ + 1, !.row_count = @ - 1]
         ELSE stat

fn_tr__truncate_stat_count(stat) ==
    IF stat.exists
    THEN [stat EXCEPT !.insert_count = 0, !.delete_count = 0, !.row_count = 0]
    ELSE stat

\* the rows a statement of transaction tx sees, and the stat row its trigger updates
View(db, tx) == ((IF tx.trunc THEN {} ELSE db.rows) \ tx.del) \cup tx.ins
StatSeen(db, tx) == IF tx.wrote THEN tx.stat ELSE db.stat

RowLocks(tx) == tx.ins \cup tx.del
TableLocked(tx) == tx.open /\ (RowLocks(tx) # {} \/ tx.pending # "none" \/ tx.trunc)
OthersOf(t) == Txs \ {t}
CanWrite(t) ==
    /\ runs[t].open
    /\ runs[t].pending = "none"
    /\ steps < MaxStatements
    /\ \A u \in OthersOf(t) : ~runs[u].trunc

async_get_row_count(db) == IF db.stat.exists THEN db.stat.row_count ELSE 0

TxBegin ==
    /\ \E t \in Txs :
        /\ ~runs[t].open
        /\ runs' = [runs EXCEPT ![t] = [NoTx EXCEPT !.open = TRUE]]
    /\ UNCHANGED <<session, last, steps, pager, query>>

InsertRow ==
    /\ \E t \in Txs, x \in Ids :
        /\ CanWrite(t)
        /\ x \notin View(session, runs[t])
        /\ \A u \in OthersOf(t) : x \notin RowLocks(runs[u])
        /\ runs' = [runs EXCEPT ![t].ins = @ \cup {x}, ![t].pending = "INSERT"]
    /\ steps' = steps + 1
    /\ UNCHANGED <<session, last, pager, query>>

DeleteRow ==
    /\ \E t \in Txs, x \in Ids :
        /\ CanWrite(t)
        /\ x \in View(session, runs[t])
        /\ \A u \in OthersOf(t) : x \notin RowLocks(runs[u])
        /\ runs' = [runs EXCEPT ![t].ins = @ \ {x}, ![t].del = @ \cup {x}, ![t].pending = "DELETE"]
    /\ steps' = steps + 1
    /\ UNCHANGED <<session, last, pager, query>>

\* the AFTER ... FOR EACH ROW trigger: it waits for the stat row's lock
FireRowTrigger ==
    /\ \E t \in Txs :
        /\ runs[t].open
        /\ runs[t].pending # "none"
        /\ \A u \in OthersOf(t) : ~runs[u].wrote
        /\ runs' = [runs EXCEPT ![t].stat = fn_tr__update_stat_count(StatSeen(session, runs[t]), runs[t].pending),
                                ![t].wrote = TRUE,
                                ![t].pending = "none"]
    /\ UNCHANGED <<session, last, steps, pager, query>>

Truncate ==
    /\ \E t \in Txs :
        /\ CanWrite(t)
        /\ \A u \in OthersOf(t) : ~TableLocked(runs[u]) /\ ~runs[u].wrote
        /\ runs' = [runs EXCEPT ![t].ins = {}, ![t].del = {}, ![t].trunc = TRUE,
                                ![t].stat = fn_tr__truncate_stat_count(StatSeen(session, runs[t])),
                                ![t].wrote = TRUE]
    /\ steps' = steps + 1
    /\ UNCHANGED <<session, last, pager, query>>

TxCommit ==
    /\ \E t \in Txs :
        /\ runs[t].open
        /\ runs[t].pending = "none"
        /\ session' = [rows |-> View(session, runs[t]), stat |-> StatSeen(session, runs[t])]
        /\ runs' = [runs EXCEPT ![t] = NoTx]
    /\ UNCHANGED <<last, steps, pager, query>>

\* a rollback asked for, or forced by a failed statement or a deadlock
TxRollback ==
    /\ \E t \in Txs :
        /\ runs[t].open
        /\ runs' = [runs EXCEPT ![t] = NoTx]
    /\ UNCHANGED <<session, last, steps, pager, query>>

\* the unfiltered task list of a reader: it waits while the table is truncated
Report ==
    /\ \A t \in Txs : ~runs[t].trunc
    /\ last' = [all_count |-> async_get_row_count(session), rows |-> Cardinality(session.rows)]
    /\ UNCHANGED <<session, steps, runs, pager, query>>

InitStat ==
    /\ session = [rows |-> {}, stat |-> NoStat]
    /\ runs = [t \in Txs |-> NoTx]
    /\ last = [all_count |-> 0, rows |-> 0]
    /\ steps = 0
    /\ pager = NoIds
    /\ query = NoRead

NextStat ==
    \/ TxBegin
    \/ InsertRow
    \/ DeleteRow
    \/ FireRowTrigger
    \/ Truncate
    \/ TxCommit
    \/ TxRollback
    \/ Report

SpecStat == InitStat /\ [][NextStat]_vars

\* C27: in every committed state the stat row has row_count = insert_count -
\* delete_count >= 0 and row_count is the number of rows of the table, and the
\* total the unfiltered task list reports is the number of rows it was read at.
C27_StatCountIsRowCount ==
    /\ async_get_row_count(session) = Cardinality(session.rows)
    /\ session.stat.exists =>
        /\ session.stat.row_count = session.stat.insert_count - session.stat.delete_count
        /\ session.stat.row_count >= 0
    /\ last.all_count = last.rows

\* both transactions wrote rows at once, rows were deleted, and a row is left
C27_Witness ==
    /\ session.stat.exists
    /\ session.stat.delete_count > 0
    /\ session.stat.row_count > 0
    /\ last.all_count > 0
    /\ \E t \in Txs : runs[t].open /\ runs[t].pending # "none" /\ \E u \in OthersOf(t) : runs[u].wrote

(***************************************************************************)
(* The write handlers of the task router (resources/task/router.py):       *)
(*     try:    await service...(db_session, ...); await db_session.commit() *)
(*     except Exception: await db_session.rollback(); raise                 *)
(* run on the session of async_get_write, which closes it in its finally.  *)
(* Here session is the request's session and last the request: its         *)
(* position, the outcome of the service call and of the commit, and the    *)
(* session calls made so far, with a mark where the service call ended.    *)
(***************************************************************************)
KwTaskIn == {[name |-> NameB], [name |-> NameA, point |-> 10], [name |-> NullName]}
KwTaskUp == {[point |-> 80], [name |-> NullName], NoKw}
BaseExceptions == {"CancelledError"}
IsException(out) == out \notin ({"ok", "none"} \cup BaseExceptions)

NoRequest(db) ==
    [handler |-> "none", pc |-> "start", svc |-> "none", commit |-> "none",
     calls |-> <<>>, pre |-> db]

\* the mutation of the handler's control flow: the commit follows any service outcome
AfterTryCommitsAlways(pc, out) ==
    IF pc = "service" THEN "commit"
    ELSE IF out = "ok" THEN "close"
    ELSE IF IsException(out) THEN "rollback"
    ELSE "close"

\* where control goes from a statement of the try block with the given outcome:
\* the next statement, the except Exception branch, or out of the handler
AfterTry(pc, out) ==
    IF out = "ok" THEN (IF pc = "service" THEN "commit" ELSE "close")
    ELSE IF IsException(out) THEN "rollback"
    ELSE "close"

\* service.async_create / async_update / async_delete: the mixin call in
\* statement mode without auto_commit, its errors re-raised as they are or
\* as BaseHTTPException
ServiceCall(handler, r, cancelled, partial) ==
    Then(IF cancelled THEN "CancelledError" ELSE r.out, LAMBDA out :
        [s |-> IF cancelled /\ ~partial THEN session ELSE r.s,
         request |-> [last EXCEPT !.handler = handler,
                                  !.svc = out,
                                  !.pc = AfterTry("service", out),
                                  !.calls = Append(r.calls, IF out = "ok" THEN "service:ok"
                                                            ELSE "service:raised")]])

create_task ==
    /\ last.pc = "start"
    /\ \E kw \in KwTaskIn, cancelled, partial \in BOOLEAN :
        \E v \in {ServiceCall("create_task", async_insert(session, gen_unique_id(session), FALSE, TRUE, FALSE, kw),
                                cancelled, partial)} :
            session' = v.s /\ last' = v.request
    /\ UNCHANGED <<steps, runs, pager, query>>

update_task ==
    /\ last.pc = "start"
    /\ \E i \in Ids, kw \in KwTaskUp, cancelled, partial \in BOOLEAN :
        \E v \in {ServiceCall("update_task", async_update_by_id(session, i, FALSE, TRUE, FALSE, kw),
                                cancelled, partial)} :
            session' = v.s /\ last' = v.request
    /\ UNCHANGED <<steps, runs, pager, query>>

delete_task ==
    /\ last.pc = "start"
    /\ \E i \in Ids, cancelled, partial \in BOOLEAN :
        \E v \in {ServiceCall("delete_task", async_delete_by_id(session, i, FALSE, FALSE),
                                cancelled, partial)} :
            session' = v.s /\ last' = v.request
    /\ UNCHANGED <<steps, runs, pager, query>>

\* await db_session.commit(): it succeeds, raises (a failed flush, a lost
\* connection) or is cancelled
HandlerCommit ==
    /\ last.pc = "commit"
    /\ \E fault \in {"none", "DBAPIError", "CancelledError"} :
        \E c \in {SessionCommit(session)} :
            \E out \in {IF c.err # "none" THEN c.err ELSE IF fault # "none" THEN fault ELSE "ok"} :
                /\ session' = IF out = "ok" THEN c.s
                              ELSE [session EXCEPT !.inactive = IsException(out)]
                /\ last' = [last EXCEPT !.commit = out,
                                        !.pc = AfterTry("commit", out),
                                        !.calls = Append(@, "commit")]
    /\ UNCHANGED <<steps, runs, pager, query>>

\* except Exception as err: await db_session.rollback() ... raise
HandlerRollback ==
    /\ last.pc = "rollback"
    /\ session' = SessionRollback(session)
    /\ last' = [last EXCEPT !.pc = "close", !.calls = Append(@, "rollback")]
    /\ UNCHANGED <<steps, runs, pager, query>>

\* async_get_write: finally: await _async_write_session.close(), which ends
\* the transaction in progress and expunges every object
HandlerClose ==
    /\ last.pc = "close"
    /\ session' = SessionRollback(session)
    /\ last' = [last EXCEPT !.pc = "done", !.calls = Append(@, "close")]
    /\ UNCHANGED <<steps, runs, pager, query>>

\* the next request gets a session of its own: AsyncWriteSession()
NextRequest ==
    /\ last.pc = "done"
    /\ steps < MaxSteps
    /\ steps' = steps + 1
    /\ session' = NewSession(session.db)
    /\ last' = NoRequest(session.db)
    /\ UNCHANGED <<runs, pager, query>>

InitHandler ==
    /\ \E t \in TxTables : session = NewSession(t) /\ last = NoRequest(t)
    /\ steps = 0
    /\ runs = Idle
    /\ pager = NoIds
    /\ query = NoRead

NextHandler ==
    \/ create_task
    \/ update_task
    \/ delete_task
    \/ HandlerCommit
    \/ HandlerRollback
    \/ HandlerClose
    \/ NextRequest

SpecHandler == InitHandler /\ [][NextHandler]_vars

Positions(calls, c) == {n \in DOMAIN calls : calls[n] = c}

None == <<>>
Link(skip) == <<skip>>
NoLinks == [first |-> None, prev |-> None, next |-> None, last |-> None]

\* the mutation of the last link: the multiple of limit at or below the total
last_skip_floor(all_count, limit) == (all_count \div limit) * limit

\* _last_skip = max((_all_count - 1) // limit * limit, 0)
last_skip(all_count, limit) ==
    LET m == ((all_count - 1) \div limit) * limit IN IF m > 0 THEN m ELSE 0

\* _last_skip = int(_total_count / limit) * limit; if it is the total, less limit.
\* The float quotient truncates to the integer quotient for every count below 2^53.
app_last_skip(total_count, limit) ==
    LET m == (total_count \div limit) * limit IN IF m = total_count THEN m - limit ELSE m

\* the mutation of the fetch: limit rows are asked for
FetchLimitSame(limit) == limit

\* limit=(limit + 1) in the call of service.async_get_list
FetchLimit(limit) == limit + 1

\* service.async_get_list without filters: the page and the stat row's row_count,
\* which is the number of committed rows of the table
RowCount(s) == Cardinality(DOMAIN s.db)
async_get_list(s, offset, limit, is_desc) ==
    {[out |-> e.out, rows |-> e.rows, all_count |-> RowCount(s)] :
        e \in AsyncReadMixin_async_select_by_where(s, <<>>, offset, limit, is_desc, TRUE)}

\* the older service: name becomes a like condition, the statement is the older
\* _build_select with its defaults, the total is the number of matching rows
NameWhere(name) ==
    IF name = None THEN <<>> ELSE <<[op |-> "like", column |-> "name", value |-> name]>>
app_async_get_list(s, name, skip, limit) ==
    Then(BaseMixin_build_where(NameWhere(name)), LAMBDA b :
        {[out |-> e.out, rows |-> e.rows, all_count |-> Cardinality(RowsWhere(s.tx, b.preds))] :
            e \in Selected(s, [err |-> b.err, preds |-> b.preds, keys |-> <<"id">>,
                               is_desc |-> TRUE, offset |-> skip, limit |-> limit,
                               disable_limit |-> FALSE])})

Failed500(out) ==
    [out |-> out, content |-> <<>>, links |-> NoLinks, list_count |-> 0, all_count |-> 0]

\* get_tasks, from the result tuple on
get_tasks(result, skip, limit) ==
    IF result.out # "ok" THEN Failed500(result.out)
    ELSE LET more == limit < Len(result.rows)
             _orm_tasks == IF more THEN SubSeq(result.rows, 1, limit) ELSE result.rows
         IN  [out |-> "ok",
              content |-> _orm_tasks,
              links |-> [first |-> IF 0 < result.all_count THEN Link(0) ELSE None,
                         last |-> IF 0 < result.all_count
                                  THEN Link(last_skip(result.all_count, limit)) ELSE None,
                         prev |-> IF 0 < skip
                                  THEN Link(IF skip - limit > 0 THEN skip - limit ELSE 0)
                                  ELSE None,
                         next |-> IF more THEN Link(skip + limit) ELSE None],
              list_count |-> Len(_orm_tasks),
              all_count |-> result.all_count]

\* the older get_tasks, from the result tuple on
app_get_tasks(result, skip, limit) ==
    IF result.out # "ok" THEN Failed500(result.out)
    ELSE LET more == Len(result.rows) = limit + 1
             _tasks == IF more THEN SubSeq(result.rows, 1, limit) ELSE result.rows
         IN  [out |-> "ok",
              content |-> _tasks,
              links |-> [first |-> IF 0 < result.all_count THEN Link(0) ELSE None,
                         last |-> IF 0 < result.all_count
                                  THEN Link(app_last_skip(result.all_count, limit)) ELSE None,
                         prev |-> IF 0 < skip
                                  THEN Link(IF skip - limit < 0 THEN 0 ELSE skip - limit)
                                  ELSE None,
                         next |-> IF more THEN Link(skip + limit) ELSE None],
              list_count |-> Len(_tasks),
              all_count |-> result.all_count]

Skips == 0..(MaxRows + 1)
Limits == 1..MaxRows
NoResponse == [op |-> "none", skip |-> 0, limit |-> 1, matching |-> 0, res |-> Failed500("none")]

GetTasks ==
    /\ pager.op = "none"
    /\ \E skip \in Skips, limit \in Limits, is_desc \in BOOLEAN :
        \E result \in async_get_list(session, skip, FetchLimit(limit), is_desc) :
            pager' = [op |-> "get_tasks", skip |-> skip, limit |-> limit,
                      matching |-> Cardinality(DOMAIN session.tx),
                      res |-> get_tasks(result, skip, limit)]
    /\ UNCHANGED <<session, last, steps, runs, query>>

AppGetTasks ==
    /\ pager.op = "none"
    /\ \E skip \in Skips, limit \in Limits, name \in {None, NameA, NameB} :
        \E result \in app_async_get_list(session, name, skip, FetchLimit(limit)) :
            pager' = [op |-> "app_get_tasks", skip |-> skip, limit |-> limit,
                      matching |-> Cardinality(RowsWhere(session.tx, Preds(NameWhere(name), TRUE))),
                      res |-> app_get_tasks(result, skip, limit)]
    /\ UNCHANGED <<session, last, steps, runs, query>>

InitList ==
    /\ session \in ReadSessions
    /\ pager = NoResponse
    /\ last = NoCall
    /\ steps = 0
    /\ runs = Idle
    /\ query = NoRead

NextList ==
    \/ GetTasks
    \/ AppGetTasks

SpecList == InitList /\ [][NextList]_vars

MaxTotal == 24
MaxLimit == 6
NoLast == [all_count |-> 0, limit |-> 1, last |-> None, app_last |-> None]

LastLink ==
    /\ query.last = None
    /\ query' = [query EXCEPT !.last = Link(last_skip(query.all_count, query.limit))]
    /\ UNCHANGED <<session, last, steps, runs, pager>>

AppLastLink ==
    /\ query.app_last = None
    /\ query' = [query EXCEPT !.app_last = Link(app_last_skip(query.all_count, query.limit))]
    /\ UNCHANGED <<session, last, steps, runs, pager>>

InitLast ==
    /\ \E n \in 1..MaxTotal, k \in 1..MaxLimit : query = [NoLast EXCEPT !.all_count = n, !.limit = k]
    /\ session = NewSession(EmptyTable)
    /\ last = NoCall
    /\ steps = 0
    /\ runs = Idle
    /\ pager = NoResponse

NextLast ==
    \/ LastLink
    \/ AppLastLink

SpecLast == InitLast /\ [][NextLast]_vars

MultiplesBelow(n, k) == {m \in 0..(n - 1) : m % k = 0}
LargestMultipleBelow(n, k) == CHOOSE m \in MultiplesBelow(n, k) : \A x \in MultiplesBelow(n, k) : x <= m

\* C30: for a total above 0 and a limit of 1 or more, the skip of the last link
\* is the largest multiple of limit strictly below the total, so the last page
\* holds the final row, and the newer and the older formula give the same skip.
C30_LastSkip ==
    /\ query.last # None =>
        /\ query.last = Link(LargestMultipleBelow(query.all_count, query.limit))
        /\ query.last[1] < query.all_count
        /\ query.all_count <= query.last[1] + query.limit
    /\ query.app_last # None =>
        query.app_last = Link(LargestMultipleBelow(query.all_count, query.limit))
    /\ (query.last # None /\ query.app_last # None) => query.last = query.app_last

\* both formulas applied to a total that is a multiple of the limit, above it
C30_Witness ==
    /\ query.last # None
    /\ query.app_last # None
    /\ query.limit > 1
    /\ query.all_count > query.limit
    /\ query.all_count % query.limit = 0
====
